---------------------------- MODULE Spec2Model ----------------------------
(***************************************************************************)
(* A model of scoped-commits (src/src/core.ts): the change collector's     *)
(* status parsing, the commit-header grammar, the validator and the        *)
(* length-only repair, the generate/validate/retry orchestrator and the    *)
(* presentation fallback chain.                                            *)
(*                                                                         *)
(* Text is modelled as a sequence of one-character strings, so that        *)
(* trimming, splitting, slicing and prefix tests are computed the way the  *)
(* code computes them.                                                     *)
(***************************************************************************)
EXTENDS Integers, Sequences, FiniteSets, TLC

VARIABLES
    \* ---- one run of runGenerateCommitMessageCommand ----
    pc,             \* the run's position
    workspace,      \* what the run finds: folder, settings, environment, work tree
    policy,         \* ScopedCommitsResolvedConfig of the run
    git,            \* GitContext of the run (diff, statusSummary, diffKind)
    host,           \* the host's sinks: what exists and what throws
    requests,       \* the generation-service calls made so far, in order
    attempt1,       \* the first attempt: its response, then [normalized, repaired, v]
    attempt2,       \* the second attempt, likewise
    finalMessage,   \* what generateWithValidationAndRetry returned
    sinks,          \* per sink: whether it was written, and the value it holds
    attempts,       \* the sink attempts made so far, in order
    method,         \* what presentCommitMessage returned
    error,          \* the error the run's catch block received
    outputLog,      \* what was appended to the output channel
    notification,   \* the text of the sticky error notification
    \* ---- application of a pure function to a drawn input ----
    arg,            \* the input
    applied,        \* which function has been applied
    result,         \* its result
    \* ---- invocations of the command that overlap ----
    runs,           \* the state of each invocation
    commitBox,      \* the input box every invocation writes to
    notices,        \* the sticky error notifications shown so far
    activeNotificationCloser    \* the notification its closer resolves; 0 for undefined

runVars == <<pc, workspace, policy, git, host, requests, attempt1, attempt2,
             finalMessage, sinks, attempts, method, error, outputLog, notification>>
fnVars == <<arg, applied, result>>
overlapVars == <<runs, commitBox, notices, activeNotificationCloser>>
vars == <<runVars, fnVars, overlapVars>>

None == "none"

-----------------------------------------------------------------------------
(* Text helpers: JavaScript's String methods on sequences of characters.   *)

\* White space as String.prototype.trim and the regex class \s see it.
IsWhite(c) == c \in {" ", "\t", "\n", "\r"}

\* Line terminators, which the regex '.' does not match.
IsLineTerminator(c) == c \in {"\n", "\r"}

\* LET v == x IN F(v), with x computed once: v ranges over the singleton {x}.
Let(x, F(_)) == CHOOSE y \in { F(v) : v \in {x} } : TRUE

Max(S) == CHOOSE i \in S : \A j \in S : j <= i

Min(S) == CHOOSE i \in S : \A j \in S : i <= j

\* The positions of s that hold no white space.
Inked(s) == { i \in 1..Len(s) : ~IsWhite(s[i]) }

TrimEnd(s) ==
    Let(s, LAMBDA t : IF Inked(t) = {} THEN <<>> ELSE SubSeq(t, 1, Max(Inked(t))))

TrimStart(s) ==
    Let(s, LAMBDA t : IF Inked(t) = {} THEN <<>> ELSE SubSeq(t, Min(Inked(t)), Len(t)))

Trim(s) ==
    Let(s, LAMBDA t : IF Inked(t) = {} THEN <<>> ELSE SubSeq(t, Min(Inked(t)), Max(Inked(t))))

\* s.slice(n) for 0 <= n
SliceFrom(s, n) == Let(s, LAMBDA t : IF n >= Len(t) THEN <<>> ELSE SubSeq(t, n + 1, Len(t)))

\* s.slice(0, n) for 0 <= n
SliceTo(s, n) == Let(s, LAMBDA t : IF n >= Len(t) THEN t ELSE SubSeq(t, 1, n))

StartsWith(s, p) ==
    \E t \in {s}, q \in {p} : Len(q) <= Len(t) /\ SubSeq(t, 1, Len(q)) = q

EndsWith(s, p) ==
    \E t \in {s}, q \in {p} : Len(q) <= Len(t) /\ SubSeq(t, Len(t) - Len(q) + 1, Len(t)) = q

\* The positions of the separator c in s, in increasing order.
RECURSIVE SepsFrom(_, _, _)
SepsFrom(s, c, i) ==
    IF i > Len(s) THEN <<>>
    ELSE IF s[i] = c THEN <<i>> \o SepsFrom(s, c, i + 1)
    ELSE SepsFrom(s, c, i + 1)

\* s.split(c) for a one-character separator: always at least one piece.
Split(s, c) ==
    Let(s, LAMBDA t :
        Let(<<0>> \o SepsFrom(t, c, 1) \o <<Len(t) + 1>>, LAMBDA cut :
            [k \in 1..(Len(cut) - 1) |-> SubSeq(t, cut[k] + 1, cut[k + 1] - 1)]))

RECURSIVE JoinFrom(_, _, _)
JoinFrom(list, sep, i) ==
    IF i > Len(list) THEN <<>>
    ELSE IF i = Len(list) THEN list[i]
    ELSE list[i] \o sep \o JoinFrom(list, sep, i + 1)

\* list.join(sep)
Join(list, sep) == \* each argument is computed once
    Let(list, LAMBDA l : Let(sep, LAMBDA p : JoinFrom(l, p, 1)))

\* list.slice(1)
Rest(list) == Let(list, LAMBDA l : IF Len(l) <= 1 THEN <<>> ELSE SubSeq(l, 2, Len(l)))

\* s.replace(/\r\n/g, '\n'): every "\r" that a "\n" follows is dropped.
RECURSIVE ReplaceCRLFFrom(_, _)
ReplaceCRLFFrom(s, i) ==
    IF i > Len(s) THEN <<>>
    ELSE IF s[i] = "\r" /\ i < Len(s) /\ s[i + 1] = "\n" THEN ReplaceCRLFFrom(s, i + 1)
    ELSE <<s[i]>> \o ReplaceCRLFFrom(s, i + 1)

ReplaceCRLF(s) == Let(s, LAMBDA t : ReplaceCRLFFrom(t, 1))

\* s.replace(/\s+/g, ' '): each run of white space becomes one space.
RECURSIVE CollapseWhiteFrom(_, _)
CollapseWhiteFrom(s, i) ==
    IF i > Len(s) THEN <<>>
    ELSE IF ~IsWhite(s[i]) THEN <<s[i]>> \o CollapseWhiteFrom(s, i + 1)
    ELSE IF i > 1 /\ IsWhite(s[i - 1]) THEN CollapseWhiteFrom(s, i + 1)
    ELSE <<" ">> \o CollapseWhiteFrom(s, i + 1)

CollapseWhite(s) == Let(s, LAMBDA t : CollapseWhiteFrom(t, 1))

\* n copies of the character c
Rep(c, n) == [i \in 1..n |-> c]

-----------------------------------------------------------------------------
(* Porcelain status parsing (the Change Collector's pure functions).       *)

\* The lines of the status text, each with its trailing white space removed.
TrimmedLines(statusPorcelainV1) ==
    Let(Split(statusPorcelainV1, "\n"), LAMBDA raw : [i \in 1..Len(raw) |-> TrimEnd(raw[i])])

hasStagedMutantNoUntrackedSkip(statusPorcelainV1) ==
    \E lines \in {TrimmedLines(statusPorcelainV1)} :
        \E i \in 1..Len(lines) :
            /\ ~(Len(lines[i]) < 2)
            /\ lines[i][1] # " "

\* The loop returns true at the first line that is long enough, is not an
\* untracked entry and has a non-blank index column; false when there is none.
hasStagedChangesFromPorcelainV1(statusPorcelainV1) ==
    \E lines \in {TrimmedLines(statusPorcelainV1)} :
        \E i \in 1..Len(lines) :
            /\ ~(Len(lines[i]) < 2)
            /\ ~(lines[i][1] = "?" /\ lines[i][2] = "?")
            /\ lines[i][1] # " "

\* The loop of stagedOnlyStatusFromPorcelainV1 from line i on: what it pushes to out.
RECURSIVE stagedOnlyFrom(_, _)
stagedOnlyFrom(lines, i) ==
    IF i > Len(lines) THEN <<>>
    ELSE IF Len(lines[i]) < 3 THEN stagedOnlyFrom(lines, i + 1)
    ELSE IF lines[i][1] = "?" /\ lines[i][2] = "?" THEN stagedOnlyFrom(lines, i + 1)
    ELSE IF lines[i][1] = " " THEN stagedOnlyFrom(lines, i + 1)
    ELSE << <<lines[i][1], " ", " ">> \o SliceFrom(lines[i], 3) >> \o stagedOnlyFrom(lines, i + 1)

RECURSIVE keepWorktreeFrom(_, _)
keepWorktreeFrom(lines, i) ==
    IF i > Len(lines) THEN <<>>
    ELSE IF Len(lines[i]) < 3 \/ lines[i][1] \in {"?", " "} THEN keepWorktreeFrom(lines, i + 1)
    ELSE <<lines[i]>> \o keepWorktreeFrom(lines, i + 1)

stagedOnlyMutantKeepWorktreeColumn(statusPorcelainV1) ==
    Let(TrimmedLines(statusPorcelainV1), LAMBDA lines : Join(keepWorktreeFrom(lines, 1), <<"\n">>))

stagedOnlyStatusFromPorcelainV1(statusPorcelainV1) ==
    Let(TrimmedLines(statusPorcelainV1), LAMBDA lines : Join(stagedOnlyFrom(lines, 1), <<"\n">>))

\* The loop of parseUntrackedFilesFromPorcelainV1 from line i on.
RECURSIVE untrackedFrom(_, _)
untrackedFrom(lines, i) ==
    IF i > Len(lines) THEN <<>>
    ELSE IF ~StartsWith(lines[i], <<"?", "?", " ">>) THEN untrackedFrom(lines, i + 1)
    ELSE IF Trim(SliceFrom(lines[i], 3)) = <<>> THEN untrackedFrom(lines, i + 1)
    ELSE <<Trim(SliceFrom(lines[i], 3))>> \o untrackedFrom(lines, i + 1)

parseUntrackedMutantAnyPrefix(statusPorcelainV1) ==
    Let(TrimmedLines(statusPorcelainV1), LAMBDA lines :
        SelectSeq([i \in 1..Len(lines) |-> Trim(SliceFrom(lines[i], 3))],
                  LAMBDA path : path # <<>>))

parseUntrackedFilesFromPorcelainV1(statusPorcelainV1) ==
    Let(TrimmedLines(statusPorcelainV1), LAMBDA lines : untrackedFrom(lines, 1))

-----------------------------------------------------------------------------
(* The Change Collector: settings, truncation, getGitContext.              *)

\* A configured number: absent, or a number that is finite or not, held in
\* tenths so that Math.trunc has something to cut.
NoNumber == [given |-> FALSE, finite |-> FALSE, tenths |-> 0]
Number(tenths) == [given |-> TRUE, finite |-> TRUE, tenths |-> tenths]
NotANumber == [given |-> TRUE, finite |-> FALSE, tenths |-> 0]

\* Math.trunc of a number held in tenths
Trunc(tenths) == IF tenths >= 0 THEN tenths \div 10 ELSE -((-tenths) \div 10)

clampInt(n, min, max) ==
    IF ~n.finite THEN min
    ELSE Max({min, Min({max, Trunc(n.tenths)})})

DefaultMaxDiffChars == 12000

\* maxDiffChars of getScopedCommitsSettings
maxDiffCharsOf(setting) ==
    clampInt(IF setting.given THEN setting ELSE Number(DefaultMaxDiffChars * 10), 1000, 200000)

\* The line truncateMiddle puts between the head and the tail.
TruncationMarker == <<"\n", "\n">> \o <<".", ".", ".", " ", "d", "i", "f", "f", " ",
                      "t", "r", "u", "n", "c", "a", "t", "e", "d", " ", ".", ".", ".">>
                      \o <<"\n", "\n">>

truncateMutantNoMarkerAllowance(text, maxChars) ==
    IF Len(text) <= maxChars THEN text
    ELSE Let(maxChars \div 2, LAMBDA keep :
             SubSeq(text, 1, Max({0, keep})) \o TruncationMarker
                 \o SubSeq(text, Max({0, Len(text) - keep}) + 1, Len(text)))

truncateMutantTailFromHead(text, maxChars) ==
    IF Len(text) <= maxChars THEN text
    ELSE Let((maxChars - 60) \div 2, LAMBDA keep :
             SubSeq(text, 1, Max({0, keep})) \o TruncationMarker
                 \o SubSeq(text, Max({0, keep}) + 1, 2 * Max({0, keep})))

truncateMiddle(text, maxChars) ==
    IF Len(text) <= maxChars THEN text
    ELSE Let((maxChars - 60) \div 2, LAMBDA keep :
             SubSeq(text, 1, Max({0, keep})) \o TruncationMarker
                 \o SubSeq(text, Max({0, Len(text) - keep}) + 1, Len(text)))

\* The text git prints: one line "XY path" per entry, each ended by eol.
RenderStatus(entries, eol, trailing) ==
    Join([i \in 1..Len(entries) |-> entries[i].xy \o <<" ">> \o entries[i].path], eol)
        \o (IF trailing /\ entries # <<>> THEN eol ELSE <<>>)

\* A tracked file and an untracked file of the work tree.
FileA == <<"a">>
FileU == <<"u">>

\* The untracked files below an untracked directory, as
\* 'git ls-files --others --exclude-standard -z -- p' lists them.
DirD == <<"d", "/">>
FileDE == <<"d", "/", "e">>
FileDF == <<"d", "/", "f">>
lsFilesOthers(p) == IF p = DirD THEN <<FileDE, FileDF>> ELSE <<>>

\* What 'git diff --no-color --no-index -- /dev/null p' prints: nothing for
\* the empty file d/f, one added line otherwise.
noIndexDiff(p) == IF p = FileDF THEN <<>> ELSE <<"+", "+", "+", " ">> \o p \o <<"\n", "+", "u", "\n">>

\* The first loop of buildUntrackedDiff from entry i on: directories expanded.
RECURSIVE expandedFrom(_, _)
expandedFrom(untracked, i) ==
    IF i > Len(untracked) THEN <<>>
    ELSE (IF EndsWith(untracked[i], <<"/">>) THEN lsFilesOthers(untracked[i]) ELSE <<untracked[i]>>)
             \o expandedFrom(untracked, i + 1)

\* The second loop of buildUntrackedDiff from file i on: the non-blank diffs.
RECURSIVE diffsFrom(_, _)
diffsFrom(expanded, i) ==
    IF i > Len(expanded) THEN <<>>
    ELSE (IF Trim(noIndexDiff(expanded[i])) # <<>> THEN <<TrimEnd(noIndexDiff(expanded[i]))>> ELSE <<>>)
             \o diffsFrom(expanded, i + 1)

buildUntrackedDiff(statusPorcelainV1) ==
    Let(parseUntrackedFilesFromPorcelainV1(statusPorcelainV1), LAMBDA untracked :
        IF untracked = <<>> THEN <<>>
        ELSE Let(expandedFrom(untracked, 1), LAMBDA expanded :
                 Join(diffsFrom(expanded, 1), <<"\n", "\n">>)))

\* The git commands buildUntrackedDiff runs, in order.
untrackedQueries(statusPorcelainV1) ==
    Let(parseUntrackedFilesFromPorcelainV1(statusPorcelainV1), LAMBDA untracked :
        Let(expandedFrom(untracked, 1), LAMBDA expanded :
            [i \in 1..Len(SelectSeq(untracked, LAMBDA p : EndsWith(p, <<"/">>))) |-> "ls-files --others"]
                \o [i \in 1..Len(expanded) |-> "diff --no-index"]))

\* [a, b].filter(Boolean).join('\n')
joinNonEmpty(a, b) ==
    IF a = <<>> THEN b ELSE IF b = <<>> THEN a ELSE a \o <<"\n">> \o b

\* getGitContext inside a work tree whose git commands succeed: repo holds
\* what 'git status --porcelain=v1', 'git diff --staged' and 'git diff' print.
getGitContext(repo, maxDiffChars) ==
    Let(hasStagedChangesFromPorcelainV1(repo.status), LAMBDA hasStaged :
        Let(IF hasStaged THEN stagedOnlyStatusFromPorcelainV1(repo.status) ELSE repo.status,
            LAMBDA statusToShow :
            [diff |-> truncateMiddle(IF hasStaged THEN repo.stagedDiff
                                     ELSE joinNonEmpty(repo.workingDiff,
                                                       buildUntrackedDiff(repo.status)),
                                     maxDiffChars),
             statusSummary |-> IF Trim(statusToShow) # <<>> THEN Trim(statusToShow)
                               ELSE <<"(clean)">>,
             diffKind |-> IF hasStaged THEN "staged" ELSE "working",
             queried |-> <<"rev-parse", "status">>
                            \o (IF hasStaged THEN <<"diff --staged">>
                                ELSE <<"diff">> \o untrackedQueries(repo.status))]))

-----------------------------------------------------------------------------
(* Best repository for a path (the Presentation Router's pure function).   *)

sep == "/"

NoRoot == <<>>      \* repo?.rootUri?.fsPath is undefined or ''

\* folderPath === rootPath || folderPath.startsWith(rootPath + path.sep)
rootMatches(rootPath, folderPath) ==
    folderPath = rootPath \/ StartsWith(folderPath, Append(rootPath, sep))

\* The loop over the first n repositories: [best, bestLen], best = 0 for undefined.
RECURSIVE pickLoop(_, _, _)
pickLoop(roots, folderPath, n) ==
    IF n = 0 THEN [best |-> 0, bestLen |-> -1]
    ELSE LET prev == pickLoop(roots, folderPath, n - 1)
             rootPath == roots[n]
         IN  IF rootPath = NoRoot THEN prev
             ELSE IF rootMatches(rootPath, folderPath) /\ Len(rootPath) > prev.bestLen
                  THEN [best |-> n, bestLen |-> Len(rootPath)]
                  ELSE prev

\* The index of the repository returned; 0 when the list is empty (undefined).
pickBestRepoForPath(roots, folderPath) ==
    LET best == pickLoop(roots, folderPath, Len(roots)).best
    IN  IF best # 0 THEN best
        ELSE IF roots = <<>> THEN 0 ELSE 1

-----------------------------------------------------------------------------
(* The target of an invocation from the source control view.               *)

\* The workspace folder returned for a path, as an index into
\* vscode.workspace.workspaceFolders; 0 stands for undefined.
pickBestWorkspaceFolderForPath(folders, folderPath) ==
    LET best == pickLoop(folders, folderPath, Len(folders)).best
    IN  IF best # 0 THEN best
        ELSE IF folders = <<>> THEN 0 ELSE 1

\* An invocation context, as its two extractions read it: the fsPath of the
\* root it carries (NoRoot when it carries none) and whether it carries an
\* input box.
ScmContext(rootPath, inputBox) == [rootPath |-> rootPath, inputBox |-> inputBox]

\* { folder, folderPath: folder?.uri.fsPath ?? folderPath, inputBox }
resolveScmInvocationTarget(context, folders) ==
    LET folderPath == context.rootPath
        folder == IF folderPath # NoRoot
                  THEN pickBestWorkspaceFolderForPath(folders, folderPath) ELSE 0
    IN  [folder |-> folder,
         hasFolderPath |-> folder # 0 \/ folderPath # NoRoot,
         folderPath |-> IF folder # 0 THEN folders[folder] ELSE folderPath,
         inputBox |-> context.inputBox]

\* The workspace folder of the active editor's document (activeFolder, 0 when
\* there is none), else the first workspace folder, else undefined.
getBestWorkspaceFolder(folders, activeFolder) ==
    IF activeFolder # 0 THEN activeFolder
    ELSE IF folders = <<>> THEN 0 ELSE 1

\* The first lines of the run: the folder whose configuration is loaded, the
\* directory git runs in, and the input box handed to presentCommitMessage.
runTarget(context, folders, activeFolder) ==
    LET target == resolveScmInvocationTarget(context, folders)
        folder == IF target.folder # 0 THEN target.folder
                  ELSE getBestWorkspaceFolder(folders, activeFolder)
    IN  IF folder = 0
        THEN [failed |-> TRUE, configFolder |-> NoRoot, cwd |-> NoRoot, preferredInputBox |-> FALSE]
        ELSE [failed |-> FALSE,
              configFolder |-> folders[folder],
              cwd |-> IF target.hasFolderPath THEN target.folderPath ELSE folders[folder],
              preferredInputBox |-> target.inputBox]

-----------------------------------------------------------------------------
(* Commit header grammar, validator, length-only repair, normalization.    *)

Lower == { "a", "b", "c", "d", "e", "f", "g", "h", "i", "j", "k", "l", "m",
           "n", "o", "p", "q", "r", "s", "t", "u", "v", "w", "x", "y", "z" }

Digit == { "0", "1", "2", "3", "4", "5", "6", "7", "8", "9" }

\* Decimal digits of a natural number, as template interpolation prints it.
RECURSIVE ToDigits(_)
ToDigits(n) ==
    LET d == <<"0", "1", "2", "3", "4", "5", "6", "7", "8", "9">>[(n % 10) + 1]
    IN  IF n < 10 THEN <<d>> ELSE Append(ToDigits(n \div 10), d)

\* Length of the match of [a-z][a-z0-9-]* at the start of s (0: no match).
RECURSIVE TypeRun(_, _)
TypeRun(s, n) ==
    IF n < Len(s) /\ s[n + 1] \in Lower \cup Digit \cup {"-"} THEN TypeRun(s, n + 1) ELSE n

TypeLen(s) == IF s # <<>> /\ s[1] \in Lower THEN TypeRun(s, 1) ELSE 0

\* Index of the first ')' of s at or after position i (0: none).
RECURSIVE FirstClose(_, _)
FirstClose(s, i) ==
    IF i > Len(s) THEN 0
    ELSE IF s[i] = ")" THEN i
    ELSE FirstClose(s, i + 1)

HeaderTailMutantOptionalSpace(s, i) ==
    Let(IF i <= Len(s) /\ s[i] = "!" THEN i + 1 ELSE i, LAMBDA j :
        IF /\ j <= Len(s)
           /\ s[j] = ":"
           /\ \A k \in (j + 1)..Len(s) : ~IsLineTerminator(s[k])
        THEN [matched |-> TRUE, bang |-> j > i, subject |-> Trim(SubSeq(s, j + 1, Len(s)))]
        ELSE [matched |-> FALSE, bang |-> FALSE, subject |-> <<>>])

\* The tail of both regexes from position i of s: (!)?: (.+)$
\* [matched, bang, subject]; '.' matches no line terminator.
HeaderTail(s, i) ==
    Let(IF i <= Len(s) /\ s[i] = "!" THEN i + 1 ELSE i, LAMBDA j :
        IF /\ j + 2 <= Len(s)
           /\ s[j] = ":"
           /\ s[j + 1] = " "
           /\ \A k \in (j + 2)..Len(s) : ~IsLineTerminator(s[k])
        THEN [matched |-> TRUE, bang |-> j > i, subject |-> Trim(SubSeq(s, j + 2, Len(s)))]
        ELSE [matched |-> FALSE, bang |-> FALSE, subject |-> <<>>])

NoHeader == [matched |-> FALSE, type |-> <<>>, scope |-> <<>>, bang |-> FALSE, subject |-> <<>>]

Parsed(type, scope, tail) ==
    [matched |-> TRUE, type |-> type, scope |-> scope, bang |-> tail.bang, subject |-> tail.subject]

matchWithScopeMutantAllowsEmptyScope(trimmed, t) ==
    IF t > 0 /\ t + 1 <= Len(trimmed) /\ trimmed[t + 1] = "("
    THEN Let(FirstClose(trimmed, t + 2), LAMBDA close :
             IF close >= t + 2
             THEN Let(HeaderTail(trimmed, close + 1), LAMBDA tail :
                      IF tail.matched
                      THEN Parsed(SubSeq(trimmed, 1, t), SubSeq(trimmed, t + 2, close - 1), tail)
                      ELSE NoHeader)
             ELSE NoHeader)
    ELSE NoHeader

\* mWithScope: ^([a-z][a-z0-9-]*)\(([^)]+)\)(!)?: (.+)$ on the trimmed line,
\* t the length of the type
matchWithScope(trimmed, t) ==
    IF t > 0 /\ t + 1 <= Len(trimmed) /\ trimmed[t + 1] = "("
    THEN Let(FirstClose(trimmed, t + 2), LAMBDA close :
             IF close > t + 2
             THEN Let(HeaderTail(trimmed, close + 1), LAMBDA tail :
                      IF tail.matched
                      THEN Parsed(SubSeq(trimmed, 1, t), SubSeq(trimmed, t + 2, close - 1), tail)
                      ELSE NoHeader)
             ELSE NoHeader)
    ELSE NoHeader

\* mNoScope: ^([a-z][a-z0-9-]*)(!)?: (.+)$; an unscoped header has scope <<>> (undefined)
matchNoScope(trimmed, t) ==
    IF t > 0
    THEN Let(HeaderTail(trimmed, t + 1), LAMBDA tail :
             IF tail.matched THEN Parsed(SubSeq(trimmed, 1, t), <<>>, tail) ELSE NoHeader)
    ELSE NoHeader

parseCommitHeader(line) ==
    Let(Trim(line), LAMBDA trimmed :
        Let(TypeLen(trimmed), LAMBDA t :
            Let(matchWithScope(trimmed, t), LAMBDA mWithScope :
                IF mWithScope.matched THEN mWithScope ELSE matchNoScope(trimmed, t))))

\* allowed.includes(x)
Includes(list, x) == \E i \in 1..Len(list) : list[i] = x

Ok == [ok |-> TRUE, reason |-> <<>>]
Invalid(reason) == [ok |-> FALSE, reason |-> reason]

TooLongReason(subjectLen, maxSubjectLength) ==
    <<"Subject is too long (">> \o ToDigits(subjectLen) \o <<" > ">>
        \o ToDigits(maxSubjectLength) \o <<").">>

\* lines[0] of message.split('\n'), trimmed
HeaderLineOf(message) == Let(Split(message, "\n"), LAMBDA lines : Trim(lines[1]))

validateMutantNoScopeCheck(message, allowedTypes, allowedScopes, maxSubjectLength) ==
    Let(parseCommitHeader(HeaderLineOf(ReplaceCRLF(message))), LAMBDA parsed :
        IF ~parsed.matched
        THEN Invalid(<<"Header is not a valid Conventional Commit header.">>)
        ELSE IF ~Includes(allowedTypes, parsed.type)
        THEN Invalid(<<"Type \"">> \o parsed.type \o <<"\" is not in allowed types.">>)
        ELSE IF parsed.subject = <<>>
        THEN Invalid(<<"Subject is empty.">>)
        ELSE IF Len(parsed.subject) > maxSubjectLength
        THEN Invalid(TooLongReason(Len(parsed.subject), maxSubjectLength))
        ELSE Ok)

validateMutantLengthFirst(message, allowedTypes, allowedScopes, maxSubjectLength) ==
    Let(parseCommitHeader(HeaderLineOf(ReplaceCRLF(message))), LAMBDA parsed :
        IF ~parsed.matched
        THEN Invalid(<<"Header is not a valid Conventional Commit header.">>)
        ELSE IF Len(parsed.subject) > maxSubjectLength
        THEN Invalid(TooLongReason(Len(parsed.subject), maxSubjectLength))
        ELSE IF ~Includes(allowedTypes, parsed.type)
        THEN Invalid(<<"Type \"">> \o parsed.type \o <<"\" is not in allowed types.">>)
        ELSE IF parsed.scope = <<>>
        THEN Invalid(<<"Scope is required but missing.">>)
        ELSE IF ~Includes(allowedScopes, parsed.scope)
        THEN Invalid(<<"Scope \"">> \o parsed.scope \o <<"\" is not in allowed scopes.">>)
        ELSE IF parsed.subject = <<>>
        THEN Invalid(<<"Subject is empty.">>)
        ELSE Ok)

validateCommitMessage(message, allowedTypes, allowedScopes, maxSubjectLength) ==
    Let(parseCommitHeader(HeaderLineOf(ReplaceCRLF(message))), LAMBDA parsed :
        IF ~parsed.matched
        THEN Invalid(<<"Header is not a valid Conventional Commit header.">>)
        ELSE IF ~Includes(allowedTypes, parsed.type)
        THEN Invalid(<<"Type \"">> \o parsed.type \o <<"\" is not in allowed types.">>)
        ELSE IF parsed.scope = <<>>
        THEN Invalid(<<"Scope is required but missing.">>)
        ELSE IF ~Includes(allowedScopes, parsed.scope)
        THEN Invalid(<<"Scope \"">> \o parsed.scope \o <<"\" is not in allowed scopes.">>)
        ELSE IF parsed.subject = <<>>
        THEN Invalid(<<"Subject is empty.">>)
        ELSE IF Len(parsed.subject) > maxSubjectLength
        THEN Invalid(TooLongReason(Len(parsed.subject), maxSubjectLength))
        ELSE Ok)

\* The scope requirement of a configuration: 'never' (never unscoped: a
\* scope is required), 'onlyIfNoGoodScope' (optional), 'requiredUnscoped'
\* (forbidden).
ScopeRequirements == { "never", "onlyIfNoGoodScope", "requiredUnscoped" }

scopeRuleMutantForbiddenAllowsListed(parsed, allowedScopes, scopeRequirement) ==
    IF parsed.scope = <<>>
    THEN IF scopeRequirement = "never" THEN Invalid(<<"Scope is required but missing.">>) ELSE Ok
    ELSE IF ~Includes(allowedScopes, parsed.scope)
    THEN Invalid(<<"Scope \"">> \o parsed.scope \o <<"\" is not in allowed scopes.">>)
    ELSE Ok

\* Rule 3 of the validator under a scope requirement: required - present and
\* allowed; forbidden - absent; optional - allowed when present.
scopeRuleUnder(parsed, allowedScopes, scopeRequirement) ==
    IF scopeRequirement = "requiredUnscoped"
    THEN IF parsed.scope # <<>> THEN Invalid(<<"Scope is forbidden.">>) ELSE Ok
    ELSE IF parsed.scope = <<>>
    THEN IF scopeRequirement = "never" THEN Invalid(<<"Scope is required but missing.">>) ELSE Ok
    ELSE IF ~Includes(allowedScopes, parsed.scope)
    THEN Invalid(<<"Scope \"">> \o parsed.scope \o <<"\" is not in allowed scopes.">>)
    ELSE Ok

\* The validator with the scope requirement as a fifth option.
validateCommitMessageUnder(message, allowedTypes, allowedScopes, maxSubjectLength, scopeRequirement) ==
    Let(parseCommitHeader(HeaderLineOf(ReplaceCRLF(message))), LAMBDA parsed :
        IF ~parsed.matched
        THEN Invalid(<<"Header is not a valid Conventional Commit header.">>)
        ELSE IF ~Includes(allowedTypes, parsed.type)
        THEN Invalid(<<"Type \"">> \o parsed.type \o <<"\" is not in allowed types.">>)
        ELSE IF ~scopeRuleUnder(parsed, allowedScopes, scopeRequirement).ok
        THEN scopeRuleUnder(parsed, allowedScopes, scopeRequirement)
        ELSE IF parsed.subject = <<>>
        THEN Invalid(<<"Subject is empty.">>)
        ELSE IF Len(parsed.subject) > maxSubjectLength
        THEN Invalid(TooLongReason(Len(parsed.subject), maxSubjectLength))
        ELSE Ok)

clampMutantCutsOneCharacter(subject, maxLen) ==
    Let(Trim(CollapseWhite(subject)), LAMBDA s :
        IF s = <<>> THEN <<>>
        ELSE IF Len(s) <= maxLen THEN s
        ELSE TrimEnd(SliceTo(s, Len(s) - 1)))

clampMutantKeepsOneTooMany(subject, maxLen) ==
    Let(Trim(CollapseWhite(subject)), LAMBDA s :
        IF s = <<>> THEN <<>>
        ELSE IF Len(s) <= maxLen THEN s
        ELSE TrimEnd(SliceTo(s, maxLen + 1)))

clampSubject(subject, maxLen) ==
    Let(Trim(CollapseWhite(subject)), LAMBDA s :
        IF s = <<>> THEN <<>>
        ELSE IF Len(s) <= maxLen THEN s
        ELSE TrimEnd(SliceTo(s, maxLen)))

repairedMutantDropsMarker(message, parsed, maxSubjectLength) ==
    Let(parsed.type
            \o (IF parsed.scope # <<>> THEN <<"(">> \o parsed.scope \o <<")">> ELSE <<>>)
            \o <<":", " ">> \o clampSubject(parsed.subject, maxSubjectLength), LAMBDA newHeader :
        Let(TrimEnd(Join(Rest(Split(message, "\n")), <<"\n">>)), LAMBDA rest :
            IF rest # <<>> THEN TrimEnd(newHeader \o <<"\n">> \o rest) ELSE newHeader))

\* The header the repair writes, and the message it returns.
repairedMessage(message, parsed, maxSubjectLength) ==
    Let(parsed.type
            \o (IF parsed.scope # <<>> THEN <<"(">> \o parsed.scope \o <<")">> ELSE <<>>)
            \o (IF parsed.bang THEN <<"!">> ELSE <<>>)
            \o <<":", " ">> \o clampSubject(parsed.subject, maxSubjectLength), LAMBDA newHeader :
        Let(TrimEnd(Join(Rest(Split(message, "\n")), <<"\n">>)), LAMBDA rest :
            IF rest # <<>> THEN TrimEnd(newHeader \o <<"\n">> \o rest) ELSE newHeader))

repairMutantAlwaysRebuilds(message, allowedTypes, allowedScopes, maxSubjectLength) ==
    Let(message, LAMBDA m :
        Let(parseCommitHeader(HeaderLineOf(m)), LAMBDA parsed :
            IF ~parsed.matched THEN m
            ELSE repairedMessage(m, parsed, maxSubjectLength)))

tryRepairSubjectLengthOnly(message, allowedTypes, allowedScopes, maxSubjectLength) ==
    Let(message, LAMBDA m :
        IF validateCommitMessage(m, allowedTypes, allowedScopes, maxSubjectLength).ok THEN m
        ELSE Let(parseCommitHeader(HeaderLineOf(m)), LAMBDA parsed :
                 IF ~parsed.matched THEN m
                 ELSE IF Len(parsed.subject) <= maxSubjectLength THEN m
                 ELSE repairedMessage(m, parsed, maxSubjectLength)))

\* Index of the first "\n" of s at or after position i (0: none).
RECURSIVE FirstNewline(_, _)
FirstNewline(s, i) ==
    IF i > Len(s) THEN 0
    ELSE IF s[i] = "\n" THEN i
    ELSE FirstNewline(s, i + 1)

\* The backquote character (U+0060), which a string literal here cannot hold.
Backquote == "U+0060"

Fence == <<Backquote, Backquote, Backquote>>

\* The first replace of normalizeCommitMessageText: an opening fence line,
\* from the three backquotes at the start through the first newline.
StripOpeningFence(text) ==
    Let(text, LAMBDA t :
        IF StartsWith(t, Fence) /\ FirstNewline(t, 4) > 0
        THEN SliceFrom(t, FirstNewline(t, 4))
        ELSE t)

\* The second replace: a newline and three backquotes at the very end.
StripClosingFence(text) ==
    Let(text, LAMBDA t : IF EndsWith(t, <<"\n">> \o Fence) THEN SliceTo(t, Len(t) - 4) ELSE t)

normalizeCommitMessageText(text) ==
    Trim(StripClosingFence(StripOpeningFence(Trim(ReplaceCRLF(text)))))

-----------------------------------------------------------------------------
(* Texts the generation service may answer with.                           *)

\* How many characters the long subjects run past the shortest allowed limit.
Overrun == 3

TFix == <<"f", "i", "x">>
TBad == <<"b", "a", "d">>
SUi == <<"u", "i">>
SZz == <<"z", "z">>
SubjShort == <<"a", "d", "d", " ", "x">>
\* "add", two spaces, then 16 + Overrun times "y": too long, with a white-space run
SubjLong == <<"a", "d", "d", " ", " ">> \o Rep("y", 16 + Overrun)

Header(type, scope, bang, subject) ==
    type \o (IF scope # <<>> THEN <<"(">> \o scope \o <<")">> ELSE <<>>)
         \o (IF bang THEN <<"!">> ELSE <<>>) \o <<":", " ">> \o subject

MsgValid == Header(TFix, SUi, FALSE, SubjShort)
MsgNoScope == Header(TFix, <<>>, FALSE, SubjShort)
MsgBadScope == Header(TFix, SZz, FALSE, SubjShort)
MsgBadType == Header(TBad, SUi, FALSE, SubjShort)
MsgLong == Header(TFix, SUi, FALSE, SubjLong)
MsgBadTypeLong == Header(TBad, SUi, FALSE, SubjLong)
MsgGarbage == <<"h", "e", "l", "l", "o">>
MsgFenced == Fence \o <<"\n">> \o MsgValid \o <<"\n">> \o Fence
\* a breaking-change header with a body, CRLF line ends and trailing white space
MsgBody == Header(TFix, SUi, TRUE, SubjShort) \o <<"\r", "\n", "\r", "\n", "b", "o", "d", "y", " ", "\n">>
MsgLongBody == <<" ">> \o MsgLong \o <<"\n", "\n", "b", "o", "d", "y">>

Responses == { MsgValid, MsgNoScope, MsgBadScope, MsgBadType, MsgLong, MsgBadTypeLong,
               MsgGarbage, MsgFenced, MsgBody, MsgLongBody, <<>> }

-----------------------------------------------------------------------------
(* Prompt Builder.                                                         *)

\* items.map((t) => `- ${t}`)
BulletLines(items) == [i \in 1..Len(items) |-> <<"- ">> \o items[i]]

buildSystemPrompt(allowedTypes, allowedScopes, maxSubjectLength, promptHints) ==
    LET typeList == Join(BulletLines(allowedTypes), <<"\n">>)
        scopeList == Join(BulletLines(allowedScopes), <<"\n">>)
        rulesLines ==
            << <<"You MUST output a valid Conventional Commit message.">>,
               <<"Output only the commit message text. No code fences, no extra commentary.">>,
               <<>>,
               <<"You MUST choose a type ONLY from this allowed list:">>,
               typeList,
               <<>>,
               <<"You MUST choose a scope ONLY from this allowed list:">>,
               scopeList,
               <<>>,
               <<"Scope is REQUIRED. Header MUST be: type(scope): subject">>,
               <<"Subject MUST be imperative mood, concise, and <= ">> \o ToDigits(maxSubjectLength)
                    \o <<" characters.">>,
               <<"Body should use third-person singular present tense (\"adds\", not \"add\") and may be omitted for trivial changes.">>,
               <<"Do NOT include Markdown formatting, and do NOT manually wrap paragraphs with line breaks.">> >>
        hintLines ==
            IF Len(promptHints) > 0
            THEN << <<>>, <<"Additional project-specific rules:">> >> \o BulletLines(promptHints)
            ELSE <<>>
    IN  Join(rulesLines \o hintLines, <<"\n">>)

buildUserPrompt(status, diff, diffKind) ==
    LET changesLabel == IF diffKind = "staged" THEN "staged changes"
                        ELSE "current working tree changes (nothing staged)"
        diffLabel == IF diffKind = "staged" THEN "Staged diff:" ELSE "Working tree diff:"
        statusLabel == IF diffKind = "staged" THEN "Git status (porcelain; staged entries only):"
                       ELSE "Git status (porcelain):"
    IN  Join(<< <<"Generate a commit message for these ", changesLabel, ".">>,
                <<>>,
                <<statusLabel>>,
                status,
                <<>>,
                <<diffLabel>>,
                diff >>, <<"\n">>)

\* retrySystem of generateWithValidationAndRetry
RetrySystemPrompt(baseSystem, reason) ==
    Join(<< baseSystem,
            <<>>,
            <<"Your previous output failed validation.">>,
            <<"Validation error: ">> \o reason,
            <<"Rewrite the commit message so it passes all constraints.">> >>, <<"\n">>)

RetryUserMutantNoPreviousOutput(baseUser, firstNormalized) ==
    Join(<< baseUser, <<>>, <<"Previous output (for correction):">> >>, <<"\n">>)

\* retryUser of generateWithValidationAndRetry
RetryUserPrompt(baseUser, firstNormalized) ==
    Join(<< baseUser,
            <<>>,
            <<"Previous output (for correction):">>,
            firstNormalized >>, <<"\n">>)

-----------------------------------------------------------------------------
(* Errors. In the message texts an apostrophe stands for the backquote of  *)
(* the source, which a string literal here cannot hold.                    *)

NoError == [thrown |-> FALSE, class |-> "none", statusCode |-> 0, message |-> <<>>]

UserFacingError(message) ==
    [thrown |-> TRUE, class |-> "UserFacingError", statusCode |-> 0, message |-> message]

AnthropicError(statusCode) ==
    [thrown |-> TRUE, class |-> "AnthropicError", statusCode |-> statusCode,
     message |-> <<"Anthropic API error ">> \o ToDigits(statusCode)]

PlainError(message) ==
    [thrown |-> TRUE, class |-> "Error", statusCode |-> 0, message |-> message]

KeyRejectedText ==
    <<"Anthropic API key was rejected (401). Check 'scopedCommits.anthropicApiKey' or 'ANTHROPIC_API_KEY'.">>

RetryFailedPrefix == <<"Generated message failed validation after retry: ">>

UnexpectedText == <<"Unexpected error (see Output: Scoped Commits).">>

\* What anthropicGenerateText may reject with.
ServiceFailures == { AnthropicError(401), AnthropicError(429), AnthropicError(500),
                     PlainError(<<"fetch failed">>) }

translateMutantEveryApiError(err) ==
    IF err.class = "AnthropicError" THEN UserFacingError(KeyRejectedText) ELSE err

\* The catch block of callAnthropicOrThrow: what it throws for what it caught.
callAnthropicOrThrowCatch(err) ==
    IF err.class = "AnthropicError" /\ err.statusCode = 401
    THEN UserFacingError(KeyRejectedText)
    ELSE err

retryFailedMutantNoReason(v2) == UserFacingError(RetryFailedPrefix)

\* The error thrown when the second attempt fails validation.
retryFailedError(v2) == UserFacingError(RetryFailedPrefix \o v2.reason)

\* e.stack || e.message: the stack starts with the error's name and message.
StackOf(err) == <<err.class, ": ">> \o err.message

renderMutantDetailAsNotice(err) ==
    IF err.class = "UserFacingError"
    THEN [notificationText |-> err.message, hasOutput |-> FALSE, outputText |-> <<>>]
    ELSE [notificationText |-> StackOf(err), hasOutput |-> FALSE, outputText |-> <<>>]

renderError(err) ==
    IF err.class = "UserFacingError"
    THEN [notificationText |-> err.message, hasOutput |-> FALSE, outputText |-> <<>>]
    ELSE [notificationText |-> UnexpectedText, hasOutput |-> TRUE, outputText |-> StackOf(err)]

-----------------------------------------------------------------------------
(* One run of runGenerateCommitMessageCommand.                             *)

\* All sequences over S of length lo..hi
SeqsOf(S, lo, hi) == UNION { [1..k -> S] : k \in lo..hi }

-----------------------------------------------------------------------------
(* Configuration, settings and changes of a run, read from its workspace.  *)

\* A setting holding a list of strings: each string trimmed, the empty dropped.
normalizeStringList(value) ==
    SelectSeq([i \in 1..Len(value) |-> Trim(value[i])], LAMBDA item : item # <<>>)

\* promptHints is a string or a list of strings.
StringSetting(text) == [isString |-> TRUE, text |-> text, items |-> <<>>]
ListSetting(items) == [isString |-> FALSE, text |-> <<>>, items |-> items]

normalizeStringOrStringList(value) ==
    IF value.isString
    THEN (IF Trim(value.text) # <<>> THEN <<Trim(value.text)>> ELSE <<>>)
    ELSE normalizeStringList(value.items)

\* The items in order of first appearance, from item i on.
RECURSIVE uniqFrom(_, _)
uniqFrom(items, i) ==
    IF i > Len(items) THEN <<>>
    ELSE (IF \E j \in 1..(i - 1) : items[j] = items[i] THEN <<>> ELSE <<items[i]>>)
             \o uniqFrom(items, i + 1)

uniq(items) == uniqFrom(items, 1)

NoPolicy == [types |-> <<>>, scopes |-> <<>>, maxSubjectLength |-> 0, promptHints |-> <<>>]

NoGit == [diff |-> <<>>, statusSummary |-> <<>>, diffKind |-> "none", queried |-> <<>>]

NoSettings == [apiKey |-> <<>>, maxDiffChars |-> 0]

ScopesEmptyText ==
    <<"'scopedCommits.scopes' is empty. Add at least one scope, or use \"Reset This Setting\" to restore defaults.">>

TypesEmptyText ==
    <<"'scopedCommits.types' is empty. Add at least one type, or use \"Reset This Setting\" to restore defaults.">>

MissingKeyText ==
    <<"Missing Anthropic API key. Set 'scopedCommits.anthropicApiKey' or env var 'ANTHROPIC_API_KEY'.">>

NoFolderText == <<"Open a folder/workspace first.">>

NotARepoText == <<"This workspace is not a git repository (no '.git').">>

NoChangesText == <<"No changes found.">>

\* What execGit throws when git cannot be started or a command fails.
GitMissingText == <<"git rev-parse --is-inside-work-tree failed: spawn git ENOENT">>
StatusFailedText == <<"git status --porcelain=v1 failed: fatal">>

\* [error, config]: the resolved configuration, or the error thrown.
loadScopedCommitsConfigFromWorkspace(ws) ==
    Let(normalizeStringList(ws.scopes), LAMBDA scopes :
    Let(normalizeStringList(ws.types), LAMBDA types :
        IF scopes = <<>> THEN [error |-> UserFacingError(ScopesEmptyText), config |-> NoPolicy]
        ELSE IF types = <<>> THEN [error |-> UserFacingError(TypesEmptyText), config |-> NoPolicy]
        ELSE [error |-> NoError,
              config |-> [types |-> uniq(types),
                          scopes |-> uniq(scopes),
                          maxSubjectLength |->
                              clampInt(IF ws.maxSubjectLength.given THEN ws.maxSubjectLength
                                       ELSE Number(800), 20, 120),
                          promptHints |-> normalizeStringOrStringList(ws.promptHints)]]))

apiKeyMutantUntrimmed(ws) ==
    IF ws.apiKeySetting # <<>> THEN ws.apiKeySetting ELSE ws.apiKeyEnv

\* The key of the settings, or else of the environment, trimmed.
apiKeyOf(ws) ==
    IF Trim(ws.apiKeySetting) # <<>> THEN Trim(ws.apiKeySetting) ELSE Trim(ws.apiKeyEnv)

\* [error, settings]
getScopedCommitsSettings(ws) ==
    IF apiKeyOf(ws) = <<>>
    THEN [error |-> UserFacingError(MissingKeyText), settings |-> NoSettings]
    ELSE [error |-> NoError,
          settings |-> [apiKey |-> apiKeyOf(ws), maxDiffChars |-> maxDiffCharsOf(ws.maxDiffChars)]]

\* [error, git]: getGitContext with the failures of isGitRepo and execGit.
getGitContextOrThrow(ws, maxDiffChars) ==
    IF ws.git = "gitMissing" THEN [error |-> UserFacingError(GitMissingText), git |-> NoGit]
    ELSE IF ws.git = "notARepo" THEN [error |-> UserFacingError(NotARepoText), git |-> NoGit]
    ELSE IF ws.git = "statusFails" THEN [error |-> UserFacingError(StatusFailedText), git |-> NoGit]
    ELSE [error |-> NoError, git |-> getGitContext(ws.repo, maxDiffChars)]

noChangesMutantNeverChecked(collected) == NoError

\* The run's test of the collected diff.
noChangesCheck(collected) ==
    IF Trim(collected.diff) = <<>> THEN UserFacingError(NoChangesText) ELSE NoError

\* The steps of the run before the first call, in order, up to the first
\* that throws: [error, config, git].
readConfigAndChanges(ws) ==
    IF ~ws.folderOpen THEN [error |-> UserFacingError(NoFolderText), config |-> NoPolicy, git |-> NoGit]
    ELSE Let(loadScopedCommitsConfigFromWorkspace(ws), LAMBDA loaded :
         IF loaded.error.thrown THEN [error |-> loaded.error, config |-> NoPolicy, git |-> NoGit]
         ELSE Let(getScopedCommitsSettings(ws), LAMBDA got :
         IF got.error.thrown THEN [error |-> got.error, config |-> loaded.config, git |-> NoGit]
         ELSE Let(getGitContextOrThrow(ws, got.settings.maxDiffChars), LAMBDA collected :
         IF collected.error.thrown
         THEN [error |-> collected.error, config |-> loaded.config, git |-> NoGit]
         ELSE [error |-> noChangesCheck(collected.git), config |-> loaded.config,
               git |-> collected.git])))

\* Resolved configurations: maxSubjectLength is clamped to 20..120 when loaded.
Policies ==
    { [types |-> <<TFix>>, scopes |-> <<SUi>>, maxSubjectLength |-> 20, promptHints |-> <<>>],
      [types |-> <<TFix, <<"f", "e", "a", "t">> >>, scopes |-> <<SUi, <<"c", "o", "r", "e">> >>,
       maxSubjectLength |-> 21, promptHints |-> << <<"Reference ticket numbers when available">> >>] }

\* Work trees: a staged change beside an untracked file; an unstaged change
\* beside an untracked directory; nothing changed; an untracked empty file.
DiffOfA == <<"diff --git a/a b/a">>

StagedRepo ==
    [entries |-> << [xy |-> <<"M", " ">>, path |-> FileA], [xy |-> <<"?", "?">>, path |-> FileU] >>,
     status |-> <<"M", " ", " ", "a", "\n", "?", "?", " ", "u", "\n">>,
     stagedDiff |-> DiffOfA, workingDiff |-> <<>>]

WorkingRepo ==
    [entries |-> << [xy |-> <<"?", "?">>, path |-> DirD], [xy |-> <<" ", "M">>, path |-> FileA] >>,
     status |-> <<"?", "?", " ", "d", "/", "\n", " ", "M", " ", "a", "\n">>,
     stagedDiff |-> <<>>, workingDiff |-> DiffOfA]

CleanRepo == [entries |-> <<>>, status |-> <<>>, stagedDiff |-> <<>>, workingDiff |-> <<>>]

EmptyFileRepo ==
    [entries |-> << [xy |-> <<"?", "?">>, path |-> FileDF] >>,
     status |-> <<"?", "?", " ", "d", "/", "f", "\n">>,
     stagedDiff |-> <<>>, workingDiff |-> <<>>]

\* Two workspaces the run can work in: the settings as a user writes them
\* (padded, repeated, out of range), the key in the settings or in the environment.
Workspace1 ==
    [folderOpen |-> TRUE,
     scopes |-> <<SUi, SUi>>,
     types |-> << <<" ">> \o TFix \o <<" ">> >>,
     promptHints |-> StringSetting(<<" ">>),
     maxSubjectLength |-> Number(5),
     apiKeySetting |-> <<" ", "k", " ">>,
     apiKeyEnv |-> <<>>,
     maxDiffChars |-> NoNumber,
     git |-> "workTree",
     repo |-> StagedRepo]

Workspace2 ==
    [folderOpen |-> TRUE,
     scopes |-> <<SUi, <<"c", "o", "r", "e">>, <<" ">> >>,
     types |-> <<TFix, <<"f", "e", "a", "t">>, TFix>>,
     promptHints |-> ListSetting(<< <<"Reference ticket numbers when available">> >>),
     maxSubjectLength |-> Number(215),
     apiKeySetting |-> <<>>,
     apiKeyEnv |-> <<"k">>,
     maxDiffChars |-> Number(10000),
     git |-> "workTree",
     repo |-> WorkingRepo]

\* Workspaces in which a step before the first call throws; where two steps
\* would throw, the earlier one does.
FailingWorkspaces ==
    { [Workspace1 EXCEPT !.folderOpen = FALSE],
      [Workspace1 EXCEPT !.scopes = << <<" ">> >>, !.types = <<>>],
      [Workspace1 EXCEPT !.types = <<>>, !.apiKeySetting = <<>>],
      [Workspace1 EXCEPT !.apiKeySetting = <<" ">>, !.git = "notARepo"],
      [Workspace2 EXCEPT !.apiKeyEnv = <<" ">>, !.repo = CleanRepo],
      [Workspace1 EXCEPT !.git = "notARepo"],
      [Workspace1 EXCEPT !.git = "gitMissing"],
      [Workspace1 EXCEPT !.git = "statusFails"],
      [Workspace1 EXCEPT !.repo = CleanRepo],
      [Workspace2 EXCEPT !.repo = EmptyFileRepo] }

Workspaces == { Workspace1, Workspace2 } \cup FailingWorkspaces

\* A sink that holds a text value: missing, settable, or with a setter that throws.
BoxStates == { "absent", "ok", "throws" }

\* The directory the run works in and the roots of the host's repositories,
\* listed outermost first, so that the deepest match is not the first entry.
cwd == <<"/", "a", "/", "b">>

HostRepoRoots == << <<"/", "a">>, <<"/", "a", "/", "b">> >>

\* The host: the input box bound to the invocation context, the built-in git
\* extension (missing, failing to activate, or active with 0..2 repositories,
\* each with its input box), vscode.scm.inputBox, and the clipboard.
Hosts ==
    { h \in [preferred : BoxStates,
             gitExt : { "absent", "activateThrows", "active" },
             repos : SeqsOf(BoxStates, 0, Len(HostRepoRoots)),
             scm : BoxStates,
             clipboard : { "ok", "throws" }] :
        h.gitExt # "active" => h.repos = <<>> }

SinkIds == { "preferredInputBox", "scmInputBox", "repository1", "repository2", "clipboard" }

RepoSink(i) == IF i = 1 THEN "repository1" ELSE "repository2"

Unwritten == [written |-> FALSE, value |-> <<>>]

NoAttempt == [stage |-> "none", raw |-> <<>>, failure |-> NoError,
              normalized |-> <<>>, repaired |-> <<>>, v |-> Ok]

NoFinal == [set |-> FALSE, text |-> <<>>]

NoNotification == [shown |-> FALSE, text |-> <<>>]

\* The responses drawn in a run: valid as sent, valid once unfenced, valid once
\* repaired, and invalid for a missing scope, a bad type (too long as well), no header.
RunResponses == { MsgValid, MsgFenced, MsgLong, MsgNoScope, MsgBadTypeLong, MsgGarbage }

BaseSystemOf(config) ==
    buildSystemPrompt(config.types, config.scopes, config.maxSubjectLength, config.promptHints)

BaseUserOf(collected) ==
    buildUserPrompt(collected.statusSummary, collected.diff, collected.diffKind)

BaseSystem == BaseSystemOf(policy)

BaseUser == BaseUserOf(git)

\* The request callAnthropicOrThrow sends.
Request(system, userText) ==
    [system |-> system, userText |-> userText, maxTokens |-> 450, temperature |-> <<"0.2">>]

\* No invocation of the overlapping kind: the variables of SpecOverlap at rest.
OverlapIdle ==
    /\ runs = <<>>
    /\ commitBox = Unwritten
    /\ notices = <<>>
    /\ activeNotificationCloser = 0

Init ==
    /\ OverlapIdle
    /\ pc = "Start"
    /\ workspace \in Workspaces
    /\ policy = NoPolicy
    /\ git = NoGit
    /\ host \in Hosts
    /\ requests = <<>>
    /\ attempt1 = NoAttempt
    /\ attempt2 = NoAttempt
    /\ finalMessage = NoFinal
    /\ sinks = [k \in SinkIds |-> Unwritten]
    /\ attempts = <<>>
    /\ method = None
    /\ error = NoError
    /\ outputLog = <<>>
    /\ notification = NoNotification
    /\ arg = None /\ applied = None /\ result = None

\* The catch block of the run, up to its delay: render the error, append the
\* details of an unexpected error to the output channel.
Fail(err) ==
    /\ error' = err
    /\ outputLog' = IF renderError(err).hasOutput
                    THEN outputLog \o << <<"[timestamp] Scoped Commits error">>,
                                         renderError(err).outputText, <<>> >>
                    ELSE outputLog
    /\ pc' = "ShowError"

\* Resolve the target, load config and settings, collect the changes; then
\* generateWithValidationAndRetry builds the base prompts and makes the first call.
ReadConfigAndChanges ==
    /\ pc = "Start"
    /\ \E read \in { readConfigAndChanges(workspace) } :
           /\ policy' = read.config
           /\ git' = read.git
           /\ IF read.error.thrown
              THEN /\ Fail(read.error)
                   /\ UNCHANGED requests
              ELSE /\ requests' = <<Request(BaseSystemOf(read.config), BaseUserOf(read.git))>>
                   /\ pc' = "Draft1"
                   /\ UNCHANGED <<error, outputLog>>
    /\ UNCHANGED <<workspace, host, attempt1, attempt2, finalMessage, sinks, attempts,
                   method, notification, fnVars, overlapVars>>

\* The first call settles: a response text, or a failure through the catch
\* block of callAnthropicOrThrow.
Draft1 ==
    /\ pc = "Draft1"
    /\ \/ \E text \in RunResponses :
            /\ attempt1' = [attempt1 EXCEPT !.stage = "drafted", !.raw = text]
            /\ pc' = "Validate1"
            /\ UNCHANGED <<error, outputLog>>
       \/ \E err \in ServiceFailures :
            /\ attempt1' = [attempt1 EXCEPT !.stage = "failed", !.failure = err]
            /\ Fail(callAnthropicOrThrowCatch(err))
    /\ UNCHANGED <<workspace, policy, git, host, requests, attempt2, finalMessage, sinks, attempts,
                   method, notification, fnVars, overlapVars>>

attemptMutantNoRepair(raw) ==
    Let(normalizeCommitMessageText(raw), LAMBDA normalized :
        [normalized |-> normalized, repaired |-> normalized,
         v |-> validateCommitMessage(normalized, policy.types, policy.scopes,
                                     policy.maxSubjectLength)])

\* Normalize, repair, validate: what both attempts do with a response.
attemptOf(raw) ==
    Let(normalizeCommitMessageText(raw), LAMBDA normalized :
        Let(tryRepairSubjectLengthOnly(normalized, policy.types, policy.scopes,
                                       policy.maxSubjectLength), LAMBDA repaired :
            [normalized |-> normalized, repaired |-> repaired,
             v |-> validateCommitMessage(repaired, policy.types, policy.scopes,
                                         policy.maxSubjectLength)]))

returnedMutantNormalized(a) == a.normalized

\* The message an attempt returns when it validates.
returnedMessage(a) == a.repaired

\* Validate the first attempt: return it, or build the retry prompts and make
\* the second call.
Validate1 ==
    /\ pc = "Validate1"
    /\ \E a \in {attemptOf(attempt1.raw)} :
           /\ attempt1' = [attempt1 EXCEPT !.stage = "validated", !.normalized = a.normalized,
                                           !.repaired = a.repaired, !.v = a.v]
           /\ \/ /\ a.v.ok
                 /\ finalMessage' = [set |-> TRUE, text |-> returnedMessage(a)]
                 /\ pc' = "PresentPreferred"
                 /\ UNCHANGED requests
              \/ /\ ~a.v.ok
                 /\ requests' = Append(requests,
                                       Request(RetrySystemPrompt(BaseSystem, a.v.reason),
                                               RetryUserPrompt(BaseUser, a.normalized)))
                 /\ pc' = "Draft2"
                 /\ UNCHANGED finalMessage
    /\ UNCHANGED <<workspace, policy, git, host, attempt2, sinks, attempts, method, error, outputLog,
                   notification, fnVars, overlapVars>>

\* The second call settles.
Draft2 ==
    /\ pc = "Draft2"
    /\ \/ \E text \in RunResponses :
            /\ attempt2' = [attempt2 EXCEPT !.stage = "drafted", !.raw = text]
            /\ pc' = "Validate2"
            /\ UNCHANGED <<error, outputLog>>
       \/ \E err \in ServiceFailures :
            /\ attempt2' = [attempt2 EXCEPT !.stage = "failed", !.failure = err]
            /\ Fail(callAnthropicOrThrowCatch(err))
    /\ UNCHANGED <<workspace, policy, git, host, requests, attempt1, finalMessage, sinks, attempts,
                   method, notification, fnVars, overlapVars>>

\* Validate the second attempt: return it, or throw the user-facing error.
Validate2 ==
    /\ pc = "Validate2"
    /\ \E a \in {attemptOf(attempt2.raw)} :
           /\ attempt2' = [attempt2 EXCEPT !.stage = "validated", !.normalized = a.normalized,
                                           !.repaired = a.repaired, !.v = a.v]
           /\ \/ /\ a.v.ok
                 /\ finalMessage' = [set |-> TRUE, text |-> returnedMessage(a)]
                 /\ pc' = "PresentPreferred"
                 /\ UNCHANGED <<error, outputLog>>
              \/ /\ ~a.v.ok
                 /\ Fail(retryFailedError(a.v))
                 /\ UNCHANGED finalMessage
    /\ UNCHANGED <<workspace, policy, git, host, requests, attempt1, sinks, attempts, method,
                   notification, fnVars, overlapVars>>

\* One entry of the attempt log: the step of the fallback chain, the sink it
\* reached ("none" when it found no sink) and how the write ended.
Attempt(step, sink, outcome) == [step |-> step, sink |-> sink, outcome |-> outcome]

\* A write to a box in state b.
BoxOutcome(b) == CASE b = "ok" -> "written" [] b = "throws" -> "threw" [] OTHER -> "unavailable"

\* tryInsertViaGitExtension(message, folderPath): the repository it picks and
\* how the write to its input box ends. withFolderPath is whether folderPath was given.
tryInsertViaGitExtension(withFolderPath) ==
    IF host.gitExt # "active" \/ host.repos = <<>>
    THEN [sink |-> "none", outcome |-> "unavailable"]
    ELSE LET roots == SubSeq(HostRepoRoots, 1, Len(host.repos))
             matchingRepo == IF withFolderPath THEN pickBestRepoForPath(roots, cwd) ELSE 1
         IN  [sink |-> RepoSink(matchingRepo), outcome |-> BoxOutcome(host.repos[matchingRepo])]

\* One step of presentCommitMessage: write to the sink and return ret, or fall
\* through to the step next.
PresentStep(step, sink, outcome, ret, next) ==
    /\ attempts' = Append(attempts, Attempt(step, sink, outcome))
    /\ IF outcome = "written"
       THEN /\ sinks' = [sinks EXCEPT ![sink] = [written |-> TRUE, value |-> finalMessage.text]]
            /\ method' = ret
            /\ pc' = "Done"
       ELSE /\ pc' = next
            /\ UNCHANGED <<sinks, method>>
    /\ UNCHANGED <<workspace, policy, git, host, requests, attempt1, attempt2, finalMessage, error,
                   outputLog, notification, fnVars, overlapVars>>

PresentPreferredMutantSkipsGit ==
    /\ pc = "PresentPreferred"
    /\ PresentStep("preferredInputBox", "preferredInputBox", BoxOutcome(host.preferred),
                   "scm", "PresentScm")

\* opts.preferredInputBox, when the invocation context gave one
PresentPreferred ==
    /\ pc = "PresentPreferred"
    /\ PresentStep("preferredInputBox", "preferredInputBox", BoxOutcome(host.preferred),
                   "scm", "PresentGitFolder")

\* tryInsertViaGitExtension(message, folderPath): folderPath is the run's cwd
PresentGitFolder ==
    /\ pc = "PresentGitFolder"
    /\ LET r == tryInsertViaGitExtension(TRUE)
       IN  PresentStep("gitForFolder", r.sink, r.outcome, "git", "PresentScm")

PresentScmMutantThrowEscapes ==
    /\ pc = "PresentScm"
    /\ IF host.scm = "throws"
       THEN /\ attempts' = Append(attempts, Attempt("scmInputBox", "scmInputBox", "threw"))
            /\ Fail(PlainError(<<"inputBox.value setter threw">>))
            /\ UNCHANGED <<workspace, policy, git, host, requests, attempt1, attempt2, finalMessage,
                           sinks, method, notification, fnVars, overlapVars>>
       ELSE PresentStep("scmInputBox", "scmInputBox", BoxOutcome(host.scm), "scm", "PresentGitFirst")

\* vscode.scm.inputBox
PresentScm ==
    /\ pc = "PresentScm"
    /\ PresentStep("scmInputBox", "scmInputBox", BoxOutcome(host.scm), "scm", "PresentGitFirst")

\* tryInsertViaGitExtension(message): the first repository of the list
PresentGitFirst ==
    /\ pc = "PresentGitFirst"
    /\ LET r == tryInsertViaGitExtension(FALSE)
       IN  PresentStep("gitFirst", r.sink, r.outcome, "git", "PresentClipboard")

\* vscode.env.clipboard.writeText: its rejection is not caught in presentCommitMessage
PresentClipboard ==
    /\ pc = "PresentClipboard"
    /\ \/ /\ host.clipboard = "ok"
          /\ PresentStep("clipboard", "clipboard", "written", "clipboard", "Done")
       \/ /\ host.clipboard = "throws"
          /\ attempts' = Append(attempts, Attempt("clipboard", "clipboard", "threw"))
          /\ Fail(PlainError(<<"clipboard.writeText rejected">>))
          /\ UNCHANGED <<workspace, policy, git, host, requests, attempt1, attempt2, finalMessage,
                         sinks, method, notification, fnVars, overlapVars>>

\* After the catch block's delay: showStickyErrorNotification(notificationText)
ShowError ==
    /\ pc = "ShowError"
    /\ notification' = [shown |-> TRUE, text |-> renderError(error).notificationText]
    /\ pc' = "Failed"
    /\ UNCHANGED <<workspace, policy, git, host, requests, attempt1, attempt2, finalMessage, sinks,
                   attempts, method, error, outputLog, fnVars, overlapVars>>

Next ==
    \/ ReadConfigAndChanges
    \/ Draft1
    \/ Validate1
    \/ Draft2
    \/ Validate2
    \/ PresentPreferred
    \/ PresentGitFolder
    \/ PresentScm
    \/ PresentGitFirst
    \/ PresentClipboard
    \/ ShowError

Spec == Init /\ [][Next]_vars

-----------------------------------------------------------------------------
(* Properties of the run.                                                  *)

\* The verdict on a response, computed from the response alone.
VerdictOn(raw) ==
    validateCommitMessage(
        tryRepairSubjectLengthOnly(normalizeCommitMessageText(raw), policy.types, policy.scopes,
                                   policy.maxSubjectLength),
        policy.types, policy.scopes, policy.maxSubjectLength)

Written == { k \in SinkIds : sinks[k].written }

\* pc values of the presentation chain and of the end of the run
PresentPcs == { "PresentPreferred", "PresentGitFolder", "PresentScm", "PresentGitFirst",
                "PresentClipboard", "Done" }

\* C1, state part: at most two requests are ever sent; the second has been
\* sent exactly when the first attempt has been validated and its normalized
\* and repaired output fails validation; a second attempt exists only then.
CallCountFollowsFirstVerdict ==
    /\ Len(requests) <= 2
    /\ (Len(requests) = 2) <=> (attempt1.stage = "validated" /\ ~VerdictOn(attempt1.raw).ok)
    /\ attempt2.stage # "none" => Len(requests) = 2

\* C1, step part: the run moves Draft1 -> Validate1 -> returned, or
\* Draft1 -> Validate1 -> Draft2 -> Validate2 -> returned or failed (a failure
\* of the service ends it from either draft state), and a request is sent only
\* at the start and on the step Validate1 -> Draft2.
GenerationStepOrder ==
    /\ pc = "Draft1" => pc' \in { "Validate1", "ShowError" }
    /\ pc = "Validate1" => pc' \in { "PresentPreferred", "Draft2" }
    /\ pc = "Draft2" => pc' \in { "Validate2", "ShowError" }
    /\ pc = "Validate2" => pc' \in { "PresentPreferred", "ShowError" }
    /\ pc' \in { "Draft2", "Validate2" } => pc \in { "Validate1", "Draft2" }
    /\ requests' # requests => \/ pc = "Start" /\ Len(requests') = 1
                               \/ pc = "Validate1" /\ pc' = "Draft2" /\ Len(requests') = 2

\* C1: the generation service is called at most twice in a run, the second
\* time if and only if the first attempt's normalized-and-repaired output
\* fails validation, and never a third time whatever the second attempt returns.
AtMostOneRetry == []CallCountFollowsFirstVerdict /\ [][GenerationStepOrder]_vars

\* C1 witness: the second attempt was made, failed validation, and the run
\* has ended with two requests sent.
AtMostOneRetryWitness ==
    /\ pc = "Failed"
    /\ attempt2.stage = "validated" /\ ~attempt2.v.ok
    /\ Len(requests) = 2

\* C2: every value written to a sink is a message validateCommitMessage
\* accepts under the run's policy, written after an attempt validated; a run
\* that ended in an error wrote to no sink.
SinksHoldOnlyValidatedMessages ==
    /\ \A k \in Written :
          /\ validateCommitMessage(sinks[k].value, policy.types, policy.scopes,
                                   policy.maxSubjectLength).ok
          /\ finalMessage.set
          /\ \/ attempt1.stage = "validated" /\ VerdictOn(attempt1.raw).ok
             \/ attempt2.stage = "validated" /\ VerdictOn(attempt2.raw).ok
    /\ pc \notin PresentPcs => Written = {}
    /\ error.thrown => Written = {}

\* C2 witness: a sink holds a message that was valid only once repaired.
SinksHoldOnlyValidatedWitness ==
    /\ pc = "Done"
    /\ Written # {}
    /\ attempt2.stage = "validated"
    /\ attempt2.repaired # attempt2.normalized

\* C3: when the second attempt's normalized-and-repaired output fails
\* validation too, the run ends with a user-facing error whose text is the
\* retry-failure prefix followed by exactly the reason that validation gave,
\* shown verbatim; no further request is sent, no message is returned and
\* no sink is written.
SecondFailureIsFatal ==
    (attempt2.stage = "validated" /\ ~VerdictOn(attempt2.raw).ok) =>
        /\ pc \in { "ShowError", "Failed" }
        /\ error = UserFacingError(RetryFailedPrefix \o VerdictOn(attempt2.raw).reason)
        /\ outputLog = <<>>
        /\ pc = "Failed" => notification = [shown |-> TRUE, text |-> error.message]
        /\ Len(requests) = 2
        /\ ~finalMessage.set
        /\ Written = {}

\* C3 witness: the run failed after a second attempt that has no scope.
SecondFailureWitness ==
    /\ pc = "Failed"
    /\ attempt2.stage = "validated"
    /\ attempt2.v = Invalid(<<"Scope is required but missing.">>)

\* The two lines the retry puts between the base user prompt and the previous output.
RetryUserLabel == <<"\n", "\n", "Previous output (for correction):", "\n">>

\* The system prompt of the retry: the base system prompt, a blank line, and
\* the three lines naming the reason validation gave for the first attempt.
RetrySystemCarriesReason ==
    requests[2].system =
        requests[1].system
            \o <<"\n", "\n", "Your previous output failed validation.", "\n", "Validation error: ">>
            \o VerdictOn(attempt1.raw).reason
            \o <<"\n", "Rewrite the commit message so it passes all constraints.">>

ServiceFailureOutcome(failure) ==
    IF failure.class = "AnthropicError" /\ failure.statusCode = 401
    THEN /\ error = UserFacingError(KeyRejectedText)
         /\ outputLog = <<>>
         /\ pc = "Failed" => notification = [shown |-> TRUE, text |-> KeyRejectedText]
    ELSE /\ error = failure
         /\ outputLog = << <<"[timestamp] Scoped Commits error">>, StackOf(failure), <<>> >>
         /\ pc = "Failed" => notification = [shown |-> TRUE, text |-> UnexpectedText]

\* C5: a 401 failure of either call becomes the user-facing error about the
\* rejected API key; any other failure of the service propagates unchanged and
\* is rendered as an unexpected error; either way no further request is sent.
ServiceFailureEndsTheRun ==
    /\ attempt1.stage = "failed" =>
          /\ ServiceFailureOutcome(attempt1.failure)
          /\ pc \in { "ShowError", "Failed" }
          /\ Len(requests) = 1 /\ attempt2 = NoAttempt /\ ~finalMessage.set
    /\ attempt2.stage = "failed" =>
          /\ ServiceFailureOutcome(attempt2.failure)
          /\ pc \in { "ShowError", "Failed" }
          /\ Len(requests) = 2 /\ ~finalMessage.set

\* C5 witness: the second call was rejected with 429 and the run has ended.
ServiceFailureWitness ==
    /\ pc = "Failed"
    /\ attempt2.stage = "failed"
    /\ attempt2.failure = AnthropicError(429)

\* C24: errors are rendered by class. A user-facing error leaves the output
\* channel untouched and is shown with its own message; any other error has
\* its detail appended to the output channel and is shown only as the generic
\* notice that points at that channel.
ErrorsAreRenderedByClass ==
    error.thrown =>
        IF error.class = "UserFacingError"
        THEN /\ outputLog = <<>>
             /\ pc = "Failed" => notification = [shown |-> TRUE, text |-> error.message]
        ELSE /\ outputLog = << <<"[timestamp] Scoped Commits error">>, StackOf(error), <<>> >>
             /\ pc = "Failed" => notification = [shown |-> TRUE, text |-> UnexpectedText]

\* C24 witness: a run has ended on a failure of the service that is not an
\* authorization failure, its notice shown.
ErrorsByClassWitness ==
    /\ pc = "Failed"
    /\ error = AnthropicError(500)
    /\ notification.shown

\* A run has ended on a user-facing error raised before any call.
UserFacingErrorShownWitness ==
    /\ pc = "Failed"
    /\ error.class = "UserFacingError"
    /\ requests = <<>>

\* The steps presentCommitMessage has taken so far, in order.
StepsTaken == [i \in 1..Len(attempts) |-> attempts[i].step]

IsPrefix(s, t) == Len(s) <= Len(t) /\ s = SubSeq(t, 1, Len(s))

\* Whether a write to sink k can succeed on this host.
Usable(k) ==
    CASE k = "preferredInputBox" -> host.preferred = "ok"
      [] k = "scmInputBox" -> host.scm = "ok"
      [] k = "repository1" -> host.gitExt = "active" /\ Len(host.repos) >= 1 /\ host.repos[1] = "ok"
      [] k = "repository2" -> host.gitExt = "active" /\ Len(host.repos) >= 2 /\ host.repos[2] = "ok"
      [] OTHER -> host.clipboard = "ok"

\* The repository whose root is the deepest one containing the run's cwd.
BestMatchingRepository == RepoSink(Len(host.repos))

\* C6 as stated: the order is bound input box, generic input box,
\* best-matching repository, clipboard, each attempted only if every higher
\* one was unavailable or threw: no repository is tried before the generic
\* input box has been.
GenericBoxBeforeRepository ==
    \A i \in 1..Len(attempts) :
        attempts[i].step \in { "gitForFolder", "gitFirst" } =>
            \E j \in 1..(i - 1) : attempts[j].step = "scmInputBox"

\* C6 amended: the order is the bound input box, the best-matching repository
\* for the folder path, the generic input box, the first repository of the
\* list, the clipboard; a step is taken only if every earlier step found its
\* sink unavailable or its write threw.
PresentationOrder ==
    /\ IsPrefix(StepsTaken, <<"preferredInputBox", "gitForFolder", "scmInputBox", "gitFirst",
                              "clipboard">>)
    /\ \A i \in 1..Len(attempts) :
          /\ i < Len(attempts) => attempts[i].outcome \in { "unavailable", "threw" }
          /\ attempts[i].outcome = "written" <=> 
                 (attempts[i].sink \in SinkIds /\ Usable(attempts[i].sink))
          /\ attempts[i].step = "gitForFolder" /\ attempts[i].sink # "none"
                 => attempts[i].sink = BestMatchingRepository
          /\ attempts[i].step = "gitFirst" /\ attempts[i].sink # "none"
                 => attempts[i].sink = "repository1"
    /\ pc \in PresentPcs \ { "Done" } => ~(\E i \in 1..Len(attempts) : attempts[i].outcome = "written")

\* C6 witness: the best-matching repository took the message although the
\* generic input box was usable and the first repository was not.
PresentationOrderWitness ==
    /\ pc = "Done"
    /\ sinks["repository2"].written
    /\ host.scm = "ok"
    /\ host.repos[1] # "ok"

\* What presentCommitMessage returns for a write to sink k.
MethodFor(k) ==
    CASE k \in { "preferredInputBox", "scmInputBox" } -> "scm"
      [] k \in { "repository1", "repository2" } -> "git"
      [] OTHER -> "clipboard"

\* C7: a presentation that returns has written the message to exactly one
\* sink and returns the value naming that sink's kind; a write that throws at
\* any sink but the clipboard is absorbed: after a message is returned by the
\* generation, only a rejected clipboard write fails the run.
ExactlyOneSinkIsWritten ==
    /\ Cardinality(Written) <= 1
    /\ pc = "Done" =>
          /\ Cardinality(Written) = 1
          /\ \A k \in Written : sinks[k].value = finalMessage.text /\ method = MethodFor(k)
          /\ ~error.thrown
    /\ pc # "Done" => method = None
    /\ (finalMessage.set /\ error.thrown) =>
          /\ host.clipboard = "throws"
          /\ error = PlainError(<<"clipboard.writeText rejected">>)
          /\ StepsTaken = <<"preferredInputBox", "gitForFolder", "scmInputBox", "gitFirst",
                            "clipboard">>

\* C7 witness: three writes threw and the clipboard took the message.
ExactlyOneSinkWitness ==
    /\ pc = "Done"
    /\ sinks["clipboard"].written
    /\ host.preferred = "throws" /\ host.scm = "throws"
    /\ Len(host.repos) = 2 /\ host.repos[1] = "throws" /\ host.repos[2] = "throws"

-----------------------------------------------------------------------------
(* Values the run's variables hold while a pure function is being applied. *)

RunIdle ==
    /\ pc = "Idle" /\ workspace = None /\ policy = None /\ git = None /\ host = None
    /\ requests = <<>>
    /\ attempt1 = NoAttempt /\ attempt2 = NoAttempt /\ finalMessage = NoFinal
    /\ sinks = [k \in SinkIds |-> Unwritten] /\ attempts = <<>> /\ method = None
    /\ error = NoError /\ outputLog = <<>> /\ notification = NoNotification
    /\ OverlapIdle

-----------------------------------------------------------------------------
(* SpecStatus: the porcelain functions applied to the status text git      *)
(* prints for a list of entries "XY path".                                 *)

MaxEntries == 2

\* XY codes of 'git status --porcelain=v1': unstaged only, staged only,
\* staged and modified, added, renamed, deleted in the index, untracked.
StatusCodes == { <<" ", "M">>, <<"M", " ">>, <<"M", "M">>, <<"A", " ">>,
                 <<"R", " ">>, <<"D", " ">>, <<"?", "?">> }

\* Paths: plain, with an embedded space, a rename arrow, an untracked directory.
StatusPaths == { <<"a">>, <<"b", " ", "c">>, <<"o", " ", "-", ">", " ", "n">>, <<"d", "/">> }

StatusEntries == [xy : StatusCodes, path : StatusPaths]

\* Line ends of the status text: git's "\n", and "\r\n" as a CRLF terminal layer gives.
LineEnds == { <<"\n">>, <<"\r", "\n">> }

StatusInit ==
    /\ RunIdle
    /\ applied = None /\ result = None
    /\ \E entries \in SeqsOf(StatusEntries, 0, MaxEntries), eol \in LineEnds, trailing \in BOOLEAN :
           arg = [entries |-> entries, text |-> RenderStatus(entries, eol, trailing)]

ApplyHasStaged ==
    /\ applied = None
    /\ applied' = "hasStagedChangesFromPorcelainV1"
    /\ result' = hasStagedChangesFromPorcelainV1(arg.text)
    /\ UNCHANGED <<arg, runVars, overlapVars>>

ApplyStagedOnly ==
    /\ applied = None
    /\ applied' = "stagedOnlyStatusFromPorcelainV1"
    /\ result' = stagedOnlyStatusFromPorcelainV1(arg.text)
    /\ UNCHANGED <<arg, runVars, overlapVars>>

ApplyParseUntracked ==
    /\ applied = None
    /\ applied' = "parseUntrackedFilesFromPorcelainV1"
    /\ result' = parseUntrackedFilesFromPorcelainV1(arg.text)
    /\ UNCHANGED <<arg, runVars, overlapVars>>

StatusNext == ApplyHasStaged \/ ApplyStagedOnly \/ ApplyParseUntracked

SpecStatus == StatusInit /\ [][StatusNext]_vars

\* An entry is staged when its index column is neither blank nor '?'.
EntryIsStaged(e) == e.xy[1] # " " /\ e.xy[1] # "?"

\* C9: hasStagedChangesFromPorcelainV1 is false when every line's first
\* character is a space or the line starts with '??', and true when some line
\* has another character in its index column.
StagedDetectionFollowsIndexColumn ==
    applied = "hasStagedChangesFromPorcelainV1" =>
        result = (\E i \in 1..Len(arg.entries) : EntryIsStaged(arg.entries[i]))

\* C9 witness: detection answered true on a text whose first line is untracked.
StagedDetectionWitness ==
    /\ applied = "hasStagedChangesFromPorcelainV1"
    /\ result = TRUE
    /\ Len(arg.entries) = 2
    /\ arg.entries[1].xy = <<"?", "?">>
    /\ arg.entries[2].xy = <<"M", "M">>

\* The line the staged filter is to print for a staged entry.
StagedLineOf(e) == <<e.xy[1], " ", " ">> \o e.path

\* C10: stagedOnlyStatusFromPorcelainV1 returns, in input order, exactly the
\* lines with a staged index column, the worktree column blanked and the path
\* text unchanged; unstaged-only and untracked lines are dropped.
StagedOnlyKeepsStagedEntries ==
    applied = "stagedOnlyStatusFromPorcelainV1" =>
        LET staged == SelectSeq(arg.entries, EntryIsStaged)
        IN  result = Join([i \in 1..Len(staged) |-> StagedLineOf(staged[i])], <<"\n">>)

\* C10 witness: a staged-and-modified rename line was kept and normalized
\* while an untracked line was dropped.
StagedOnlyWitness ==
    /\ applied = "stagedOnlyStatusFromPorcelainV1"
    /\ Len(arg.entries) = 2
    /\ arg.entries[1].xy = <<"?", "?">>
    /\ arg.entries[2] = [xy |-> <<"M", "M">>, path |-> <<"o", " ", "-", ">", " ", "n">>]
    /\ result = <<"M", " ", " ", "o", " ", "-", ">", " ", "n">>

\* C22: parseUntrackedFilesFromPorcelainV1 returns exactly the paths of the
\* lines that begin with the untracked marker, in input order, embedded
\* spaces and a trailing directory separator kept; other lines give nothing.
UntrackedPathsAreExtracted ==
    applied = "parseUntrackedFilesFromPorcelainV1" =>
        LET untracked == SelectSeq(arg.entries, LAMBDA e : e.xy = <<"?", "?">>)
        IN  result = [i \in 1..Len(untracked) |-> untracked[i].path]

\* C22 witness: an untracked directory and then an untracked path with a
\* space were returned, in that order.
UntrackedPathsWitness ==
    /\ applied = "parseUntrackedFilesFromPorcelainV1"
    /\ Len(arg.entries) = 2
    /\ arg.entries[1].xy = <<"?", "?">> /\ arg.entries[2].xy = <<"?", "?">>
    /\ result = << <<"d", "/">>, <<"b", " ", "c">> >>

-----------------------------------------------------------------------------
(* SpecRepo: pickBestRepoForPath applied to a non-empty repository list.   *)

MaxRepos == 3

\* fsPath values of repository roots: the file-system root, nested
\* directories, a sibling sharing a name prefix, and a repository without one.
RepoRoots == { <<"/">>, <<"/", "a">>, <<"/", "a", "/", "b">>, <<"/", "a", "b">>, NoRoot }

FolderPaths == { <<"/", "a">>, <<"/", "a", "/", "b">>, <<"/", "a", "b">>, <<"/", "c">> }

RepoInit ==
    /\ RunIdle
    /\ applied = None /\ result = None
    /\ \E roots \in SeqsOf(RepoRoots, 1, MaxRepos), folderPath \in FolderPaths :
           arg = [repositories |-> roots, folderPath |-> folderPath]

ApplyPickBestRepo ==
    /\ applied = None
    /\ applied' = "pickBestRepoForPath"
    /\ result' = pickBestRepoForPath(arg.repositories, arg.folderPath)
    /\ UNCHANGED <<arg, runVars, overlapVars>>

RepoNext == ApplyPickBestRepo

SpecRepo == RepoInit /\ [][RepoNext]_vars

\* The directory names of a path, root first.
PathComponents(p) == SelectSeq(Split(p, sep), LAMBDA piece : piece # <<>>)

\* root equals dir or is an ancestor of dir
RootContains(root, dir) ==
    LET r == PathComponents(root)
        d == PathComponents(dir)
    IN  Len(r) <= Len(d) /\ SubSeq(d, 1, Len(r)) = r

\* C8: pickBestRepoForPath returns, among the repositories whose root contains
\* dir, the one with the longest root path; the first entry when none does.
PickBestIsDeepestContainingRepo ==
    applied = "pickBestRepoForPath" =>
        LET roots == arg.repositories
            containing == { i \in 1..Len(roots) :
                              roots[i] # NoRoot /\ RootContains(roots[i], arg.folderPath) }
        IN  IF containing # {}
            THEN /\ result \in containing
                 /\ \A j \in containing : Len(roots[result]) >= Len(roots[j])
            ELSE result = 1

-----------------------------------------------------------------------------
(* SpecValidate: the validator, the length-only repair and one attempt of   *)
(* the orchestrator applied to a message under a resolved configuration.    *)

\* The run's variables while a function is applied under configuration p.
RunIdleUnder(p) ==
    /\ pc = "Idle" /\ workspace = None /\ policy = p /\ git = None /\ host = None
    /\ requests = <<>>
    /\ attempt1 = NoAttempt /\ attempt2 = NoAttempt /\ finalMessage = NoFinal
    /\ sinks = [k \in SinkIds |-> Unwritten] /\ attempts = <<>> /\ method = None
    /\ error = NoError /\ outputLog = <<>> /\ notification = NoNotification
    /\ OverlapIdle

\* Subjects: short; short with a white-space run; one character past the
\* smallest limit; with a space where the smallest limit cuts; too long.
SubjSpaced == <<"a", "d", "d", " ", " ", "x">>
SubjEdge == Rep("y", 21)
SubjCutAtSpace == Rep("a", 19) \o <<" ">> \o Rep("b", 4)
Subjects == { SubjShort, SubjSpaced, SubjEdge, SubjCutAtSpace, SubjLong }

\* What surrounds the header line: nothing, leading white space, a body,
\* a body after CRLF line ends with trailing white space.
Plain(h) == h
Indented(h) == <<" ">> \o h
WithBody(h) == h \o <<"\n", "\n", "b", "o", "d", "y">>
WithCrlfBody(h) == h \o <<"\r", "\n", "\r", "\n", "b", "o", "d", "y", " ", "\n">>

HeaderLines ==
    { Header(type, scope, bang, subject) :
        type \in { TFix, TBad }, scope \in { SUi, SZz, <<>> }, bang \in BOOLEAN,
        subject \in Subjects }

Messages ==
    UNION { { Plain(h), Indented(h), WithBody(h), WithCrlfBody(h) } : h \in HeaderLines }
        \cup Responses

ValidateInit ==
    /\ applied = None /\ result = None
    /\ \E p \in Policies, message \in Messages :
           /\ RunIdleUnder(p)
           /\ arg = [message |-> message]

ApplyValidate ==
    /\ applied = None
    /\ applied' = "validateCommitMessage"
    /\ result' = validateCommitMessage(arg.message, policy.types, policy.scopes,
                                       policy.maxSubjectLength)
    /\ UNCHANGED <<arg, runVars, overlapVars>>

ApplyRepair ==
    /\ applied = None
    /\ applied' = "tryRepairSubjectLengthOnly"
    /\ result' = tryRepairSubjectLengthOnly(arg.message, policy.types, policy.scopes,
                                            policy.maxSubjectLength)
    /\ UNCHANGED <<arg, runVars, overlapVars>>

\* One attempt of generateWithValidationAndRetry on the response arg.message.
ApplyAttempt ==
    /\ applied = None
    /\ applied' = "attempt"
    /\ \E a \in {attemptOf(arg.message)} :
           result' = [normalized |-> a.normalized, repaired |-> a.repaired, v |-> a.v,
                      returned |-> IF a.v.ok THEN returnedMessage(a) ELSE <<>>]
    /\ UNCHANGED <<arg, runVars, overlapVars>>

\* The validator applied under one of the three scope requirements.
ApplyValidateUnder ==
    /\ applied = None
    /\ applied' = "validateCommitMessageUnder"
    /\ \E scopeRequirement \in ScopeRequirements :
           result' = [scopeRequirement |-> scopeRequirement,
                      v |-> validateCommitMessageUnder(arg.message, policy.types, policy.scopes,
                                                       policy.maxSubjectLength, scopeRequirement)]
    /\ UNCHANGED <<arg, runVars, overlapVars>>

ValidateNext == ApplyValidate \/ ApplyRepair \/ ApplyAttempt \/ ApplyValidateUnder

SpecValidate == ValidateInit /\ [][ValidateNext]_vars

\* The header of a message as the validator reads it.
HeaderOf(message) == parseCommitHeader(HeaderLineOf(ReplaceCRLF(message)))

\* The five rules, in the order the validator is to check them.
RuleOrder == <<"header", "type", "scope", "subject", "length">>

RuleHolds(rule, parsed, p) ==
    CASE rule = "header" -> parsed.matched
      [] rule = "type" -> \E i \in 1..Len(p.types) : p.types[i] = parsed.type
      [] rule = "scope" -> \E i \in 1..Len(p.scopes) : p.scopes[i] = parsed.scope
      [] rule = "subject" -> Len(parsed.subject) > 0
      [] OTHER -> Len(parsed.subject) <= p.maxSubjectLength

\* The rule a reason names.
RuleNamedBy(reason) ==
    CASE reason = <<"Header is not a valid Conventional Commit header.">> -> "header"
      [] reason[1] = "Type \"" -> "type"
      [] reason[1] \in { "Scope is required but missing.", "Scope \"" } -> "scope"
      [] reason = <<"Subject is empty.">> -> "subject"
      [] reason[1] = "Subject is too long (" -> "length"
      [] OTHER -> "none"

\* C16: validateCommitMessage returns ok exactly when the header parses, the
\* type is allowed, the scope rule holds, the subject is non-empty and the
\* subject is within the limit; otherwise its reason names the first of
\* these rules, in that order, that fails.
ValidatorReportsFirstFailingRule ==
    applied = "validateCommitMessage" =>
        LET parsed == HeaderOf(arg.message)
            failing == { i \in 1..Len(RuleOrder) :
                           ~parsed.matched \/ ~RuleHolds(RuleOrder[i], parsed, policy) }
        IN  /\ result.ok <=> failing = {}
            /\ ~result.ok =>
                  RuleNamedBy(result.reason) = RuleOrder[CHOOSE i \in failing : \A j \in failing : i <= j]

\* C16 witness: a header with a type, a scope and a subject length that all
\* break their rules was rejected for its type.
ValidatorFirstRuleWitness ==
    /\ applied = "validateCommitMessage"
    /\ arg.message = Header(TBad, SZz, FALSE, SubjLong)
    /\ result = Invalid(<<"Type \"", "b", "a", "d", "\" is not in allowed types.">>)

RepairOnce(message) ==
    tryRepairSubjectLengthOnly(message, policy.types, policy.scopes, policy.maxSubjectLength)

\* C18: repairing the repaired text changes nothing.
RepairIsIdempotent ==
    applied = "tryRepairSubjectLengthOnly" => RepairOnce(result) = result

\* C18 witness: a repair that changed a message with a body and a disallowed type.
RepairIdempotentWitness ==
    /\ applied = "tryRepairSubjectLengthOnly"
    /\ arg.message = WithBody(Header(TBad, SUi, TRUE, SubjLong))
    /\ result # arg.message

\* The first line of a text, as split('\n') gives it.
FirstLine(text) == Split(text, "\n")[1]

\* C19: when the first line of the message parses as a header, the first line
\* of the repair's output parses as a header too, with a subject of at most
\* maxSubjectLength characters.
RepairKeepsHeaderWithinLimit ==
    (applied = "tryRepairSubjectLengthOnly" /\ parseCommitHeader(FirstLine(arg.message)).matched) =>
        LET after == parseCommitHeader(FirstLine(result))
        IN  /\ after.matched
            /\ Len(after.subject) <= policy.maxSubjectLength

\* C19 witness: a subject cut at a space, the space then trimmed off.
RepairWithinLimitWitness ==
    /\ applied = "tryRepairSubjectLengthOnly"
    /\ policy.maxSubjectLength = 20
    /\ arg.message = Header(TFix, SUi, FALSE, SubjCutAtSpace)
    /\ result = Header(TFix, SUi, FALSE, Rep("a", 19))

\* C20: the repair returns the normalized response unchanged when its header
\* does not parse or its subject is within the limit, so for every response
\* that validates as normalized; the attempt then returns exactly the
\* normalized response.
RepairLeavesShortSubjectsAlone ==
    applied = "attempt" =>
        LET normalized == normalizeCommitMessageText(arg.message)
            parsed == parseCommitHeader(FirstLine(normalized))
            valid == validateCommitMessage(normalized, policy.types, policy.scopes,
                                           policy.maxSubjectLength).ok
        IN  /\ (~parsed.matched \/ Len(parsed.subject) <= policy.maxSubjectLength)
                   => result.repaired = normalized
            /\ valid => /\ result.repaired = normalized
                        /\ result.v.ok
                        /\ result.returned = normalized

\* C20 witness: a valid response whose subject holds a white-space run and
\* whose body follows CRLF line ends was returned as normalized.
RepairLeavesAloneWitness ==
    /\ applied = "attempt"
    /\ arg.message = WithCrlfBody(Header(TFix, SUi, FALSE, SubjSpaced))
    /\ result.v.ok
    /\ result.returned = Header(TFix, SUi, FALSE, SubjSpaced) \o <<"\n", "\n", "b", "o", "d", "y">>

\* The verdict on a message under the policy of the state.
Verdict(message) ==
    validateCommitMessage(message, policy.types, policy.scopes, policy.maxSubjectLength)

\* The message fails a rule that comes before the subject length.
FailsAnotherRule(message) ==
    /\ ~Verdict(message).ok
    /\ RuleNamedBy(Verdict(message).reason) \in { "header", "type", "scope" }

\* C25 as stated: a message that fails a rule other than the subject length
\* is returned unchanged by the repair, even if its subject is too long.
RepairOnlyWhenLengthIsSoleFailure ==
    applied = "tryRepairSubjectLengthOnly" =>
        (FailsAnotherRule(arg.message) => result = arg.message)

\* What the repair does instead: it rewrites every message that fails
\* validation and whose header parses with a subject beyond the limit; the
\* rewritten message still fails the rule the original failed.
RepairRewritesEveryLongSubject ==
    applied = "tryRepairSubjectLengthOnly" =>
        LET parsed == parseCommitHeader(FirstLine(arg.message))
        IN  /\ result # arg.message =>
                   (parsed.matched /\ Len(parsed.subject) > policy.maxSubjectLength)
            /\ FailsAnotherRule(arg.message) => Verdict(result) = Verdict(arg.message)

\* The text below the first line of a message.
BodyOf(message) ==
    IF FirstNewline(message, 1) = 0 THEN <<>>
    ELSE SubSeq(message, FirstNewline(message, 1) + 1, Len(message))

\* C26: when the repair rewrites a header, the new header has the type, the
\* scope (or none) and the breaking-change marker of the original, and the
\* text below the header line is kept; only the subject is changed.
RepairKeepsAllButTheSubject ==
    (applied = "tryRepairSubjectLengthOnly" /\ result # arg.message) =>
        LET before == parseCommitHeader(FirstLine(arg.message))
            after == parseCommitHeader(FirstLine(result))
        IN  /\ before.matched /\ after.matched
            /\ after.type = before.type
            /\ after.scope = before.scope
            /\ after.bang = before.bang
            /\ after.subject # before.subject
            /\ TrimEnd(BodyOf(result)) = TrimEnd(BodyOf(arg.message))

\* C26 witness: an unscoped breaking header with a body was rewritten.
RepairKeepsWitness ==
    /\ applied = "tryRepairSubjectLengthOnly"
    /\ arg.message = WithBody(Header(TFix, <<>>, TRUE, SubjLong))
    /\ result # arg.message
    /\ parseCommitHeader(FirstLine(result)).bang
    /\ BodyOf(result) = BodyOf(arg.message)

-----------------------------------------------------------------------------
(* SpecGit: getGitContext and truncateMiddle applied to a work tree whose  *)
(* entries, diffs and maxDiffChars setting are drawn from small sets.      *)

MaxExcess == 2

\* Entries of a work tree whose diffs are measured against a limit above the default.
MaxEntriesOfLargeDiff == 1

\* Entries of the work tree: a tracked file changed in the work tree, in the
\* index or in both; an untracked file and an untracked directory.
GitEntries == [xy : { <<" ", "M">>, <<"M", " ">>, <<"M", "M">> }, path : { FileA }]
                  \cup [xy : { <<"?", "?">> }, path : { FileU, DirD }]

\* The scopedCommits.maxDiffChars setting: absent, below the range, the lower
\* end, a fraction above it, not a number, and beyond the upper end.
MaxDiffCharsSettings ==
    { NoNumber, Number(0), Number(10000), Number(10019), NotANumber, Number(2500000) }

\* Diff texts of n characters; the two sides print different characters.
StagedText(n) == [i \in 1..n |-> <<"s", "t", "a", "g", "e">>[(i % 5) + 1]]
WorkingText(n) == [i \in 1..n |-> <<"w", "o", "r", "k", "i", "n", "g">>[(i % 7) + 1]]

\* Lengths of a diff: short, around the limit maxChars, and three times the
\* smallest limit.
DiffLengths(maxChars) ==
    { 5, maxChars - 1, maxChars, maxChars + 1, maxChars + MaxExcess, 3000 }

HasIndexChange(entries) == \E i \in 1..Len(entries) : entries[i].xy[1] \in { "M" }
HasWorktreeChange(entries) == \E i \in 1..Len(entries) : entries[i].xy[2] \in { "M" }

GitInit ==
    /\ RunIdle
    /\ applied = None /\ result = None
    /\ \E setting \in MaxDiffCharsSettings :
       \E entries \in SeqsOf(GitEntries, 0, MaxEntries), n \in DiffLengths(maxDiffCharsOf(setting)) :
           /\ maxDiffCharsOf(setting) > DefaultMaxDiffChars => Len(entries) <= MaxEntriesOfLargeDiff
           /\ arg = [entries |-> entries,
                     status |-> RenderStatus(entries, <<"\n">>, TRUE),
                     stagedDiff |-> IF HasIndexChange(entries) THEN StagedText(n) ELSE <<>>,
                     workingDiff |-> IF HasWorktreeChange(entries) THEN WorkingText(n) ELSE <<>>,
                     setting |-> setting,
                     maxDiffChars |-> maxDiffCharsOf(setting)]

ApplyGetGitContext ==
    /\ applied = None
    /\ applied' = "getGitContext"
    /\ result' = getGitContext(arg, arg.maxDiffChars)
    /\ UNCHANGED <<arg, runVars, overlapVars>>

ApplyTruncateMiddle ==
    /\ applied = None
    /\ applied' = "truncateMiddle"
    /\ \E text \in { arg.stagedDiff, arg.workingDiff } :
           result' = [text |-> text, maxChars |-> arg.maxDiffChars,
                      out |-> truncateMiddle(text, arg.maxDiffChars)]
    /\ UNCHANGED <<arg, runVars, overlapVars>>

GitNext == ApplyGetGitContext \/ ApplyTruncateMiddle

SpecGit == GitInit /\ [][GitNext]_vars


\* The untracked files of the entries, directories expanded, from entry i on.
RECURSIVE UntrackedFilesFrom(_, _)
UntrackedFilesFrom(entries, i) ==
    IF i > Len(entries) THEN <<>>
    ELSE (IF entries[i].xy # <<"?", "?">> THEN <<>>
          ELSE IF entries[i].path = DirD THEN lsFilesOthers(DirD)
          ELSE <<entries[i].path>>) \o UntrackedFilesFrom(entries, i + 1)

\* The synthetic diff of the untracked files: each file that has content
\* compared against an empty file, the hunks a blank line apart.
SyntheticDiff(entries) ==
    LET files == UntrackedFilesFrom(entries, 1)
        hunks == SelectSeq([i \in 1..Len(files) |-> TrimEnd(noIndexDiff(files[i]))],
                           LAMBDA d : d # <<>>)
    IN  Join(hunks, <<"\n", "\n">>)

\* The working-tree diff followed by the synthetic diff, on lines of their own.
AssembledWorkingDiff ==
    IF arg.workingDiff = <<>> THEN SyntheticDiff(arg.entries)
    ELSE IF SyntheticDiff(arg.entries) = <<>> THEN arg.workingDiff
    ELSE arg.workingDiff \o <<"\n">> \o SyntheticDiff(arg.entries)

StagedSide ==
    /\ result.diffKind = "staged"
    /\ result.diff = truncateMiddle(arg.stagedDiff, arg.maxDiffChars)
    /\ \A i \in 1..Len(result.queried) :
           result.queried[i] \notin { "diff", "diff --no-index", "ls-files --others" }
    /\ result.statusSummary
           = Join([i \in 1..Len(SelectSeq(arg.entries, EntryIsStaged)) |->
                       StagedLineOf(SelectSeq(arg.entries, EntryIsStaged)[i])], <<"\n">>)

WorkingDiffSide ==
    /\ result.diffKind = "working"
    /\ result.diff = truncateMiddle(AssembledWorkingDiff, arg.maxDiffChars)

\* The summary is the status text git printed, final line end aside; a
\* status without entries is shown as '(clean)'.
SummaryIsFullStatus ==
    IF arg.entries = <<>> THEN result.statusSummary = <<"(clean)">>
    ELSE result.statusSummary = TrimEnd(arg.status)

\* C11 as stated: the change set is built entirely from the side its tag names:
\* staged exactly when an entry is staged, and then the staged diff alone and the
\* staged lines alone; otherwise the working-tree diff followed by the synthetic
\* diffs of the untracked files, and the full unfiltered status as the summary.
ChangeSetBuiltFromItsSide ==
    applied = "getGitContext" =>
        IF \E i \in 1..Len(arg.entries) : EntryIsStaged(arg.entries[i])
        THEN StagedSide
        ELSE WorkingDiffSide /\ SummaryIsFullStatus

\* What getGitContext does to the summary of the working side: the status is
\* trimmed at both ends, so a first line ' M path' loses its index column.
ChangeSetBuiltFromItsSideButForLeadingBlank ==
    applied = "getGitContext" =>
        IF \E i \in 1..Len(arg.entries) : EntryIsStaged(arg.entries[i])
        THEN StagedSide
        ELSE /\ WorkingDiffSide
             /\ SummaryIsFullStatus \/ (/\ arg.entries[1].xy[1] = " "
                                        /\ <<" ">> \o result.statusSummary = TrimEnd(arg.status))

\* C12: for every maxDiffChars setting (clamped into 1000..200000) and every
\* assembled diff, the diff of the change set, and every output of
\* truncateMiddle, is at most maxDiffChars characters long.
DiffWithinMaxDiffChars ==
    /\ arg.maxDiffChars \in 1000..200000
    /\ applied = "getGitContext" => Len(result.diff) <= arg.maxDiffChars
    /\ applied = "truncateMiddle" => Len(result.out) <= result.maxChars

DiffWithinMaxWitness ==
    /\ applied = "getGitContext" /\ result.diffKind = "working"
    /\ Len(arg.workingDiff) = arg.maxDiffChars - 1 /\ SyntheticDiff(arg.entries) # <<>>
    /\ Len(result.diff) < Len(arg.workingDiff)

\* C13: truncateMiddle returns a text of at most maxDiffChars characters
\* unchanged; of a longer one it returns the first k characters, the marker
\* and the last k characters, k = (maxDiffChars - 60) \div 2, so the output
\* starts and ends with the characters the input starts and ends with.
TruncateMiddleKeepsHeadAndTail ==
    applied = "truncateMiddle" =>
        LET k == (result.maxChars - 60) \div 2
            n == Len(result.text)
        IN  IF n <= result.maxChars THEN result.out = result.text
            ELSE /\ result.out = SubSeq(result.text, 1, k) \o TruncationMarker
                                     \o SubSeq(result.text, n - k + 1, n)
                 /\ k > 0
                 /\ result.out[1] = result.text[1]
                 /\ result.out[Len(result.out)] = result.text[n]

TruncateMiddleWitness ==
    /\ applied = "truncateMiddle"
    /\ Len(result.text) = result.maxChars + 1
    /\ Len(result.out) = 2 * ((result.maxChars - 60) \div 2) + Len(TruncationMarker)
    /\ result.out # result.text


-----------------------------------------------------------------------------
(* Properties of the steps of the run before the first call.               *)

\* A list setting names something: one of its strings is not blank.
NamesSomething(list) == \E i \in 1..Len(list) : Trim(list[i]) # <<>>

HasApiKey(ws) == Trim(ws.apiKeySetting) # <<>> \/ Trim(ws.apiKeyEnv) # <<>>

\* The workspace is configured and is a work tree that git can read.
Collectable(ws) ==
    /\ ws.folderOpen /\ NamesSomething(ws.scopes) /\ NamesSomething(ws.types) /\ HasApiKey(ws)
    /\ ws.git = "workTree"

\* Nothing to commit: no change in the index or the work tree, and no
\* untracked file with content.
NothingToCommit(ws) ==
    /\ ~HasIndexChange(ws.repo.entries)
    /\ ~HasWorktreeChange(ws.repo.entries)
    /\ SyntheticDiff(ws.repo.entries) = <<>>

\* C14: when the collected diff is empty the run ends with the user-facing
\* error 'No changes found.': no call to the generation service is made,
\* nothing is appended to the output channel and no sink is written.
EmptyDiffIsNothingToCommit ==
    (pc # "Start" /\ Collectable(workspace) /\ NothingToCommit(workspace)) =>
        /\ git.diff = <<>>
        /\ pc \in { "ShowError", "Failed" }
        /\ error = UserFacingError(NoChangesText)
        /\ requests = <<>>
        /\ outputLog = <<>>
        /\ \A k \in SinkIds : ~sinks[k].written
        /\ pc = "Failed" => notification = [shown |-> TRUE, text |-> NoChangesText]

\* C14 witness: a work tree whose only entry is an untracked empty file was
\* collected and the notification has been shown.
EmptyDiffWitness ==
    /\ pc = "Failed"
    /\ workspace.repo = EmptyFileRepo
    /\ git.diffKind = "working" /\ git.diff = <<>>
    /\ notification.text = NoChangesText


-----------------------------------------------------------------------------
(* SpecConfig: the steps of the run before the first call, in a workspace  *)
(* that also sets the scope requirement.                                   *)

\* Settings a user can leave behind: a list missing, holding only a blank
\* string, or naming something; a key missing, blank, or set.
ListSettings(item) == { <<>>, << <<" ">> >>, << <<" ">> \o item >> }
KeySettings == { <<>>, <<" ">>, <<"k">> }

ConfigWorkspaces ==
    { [folderOpen |-> TRUE,
       scopes |-> scopes,
       types |-> types,
       scopeRequirement |-> scopeRequirement,
       promptHints |-> ListSetting(<<>>),
       maxSubjectLength |-> NoNumber,
       apiKeySetting |-> apiKeySetting,
       apiKeyEnv |-> apiKeyEnv,
       maxDiffChars |-> NoNumber,
       git |-> "workTree",
       repo |-> StagedRepo] :
        scopes \in ListSettings(SUi), types \in ListSettings(TFix),
        scopeRequirement \in ScopeRequirements,
        apiKeySetting \in KeySettings, apiKeyEnv \in KeySettings }

\* The loader under a scope requirement: the scopes may be empty only when
\* scopes are forbidden; the types never.
loadConfigUnder(ws) ==
    Let(normalizeStringList(ws.scopes), LAMBDA scopes :
    Let(normalizeStringList(ws.types), LAMBDA types :
        IF scopes = <<>> /\ ws.scopeRequirement # "requiredUnscoped"
        THEN [error |-> UserFacingError(ScopesEmptyText), config |-> NoPolicy]
        ELSE IF types = <<>>
        THEN [error |-> UserFacingError(TypesEmptyText), config |-> NoPolicy]
        ELSE [error |-> NoError,
              config |-> [types |-> uniq(types),
                          scopes |-> uniq(scopes),
                          scopeRequirement |-> ws.scopeRequirement,
                          maxSubjectLength |->
                              clampInt(IF ws.maxSubjectLength.given THEN ws.maxSubjectLength
                                       ELSE Number(800), 20, 120),
                          promptHints |-> normalizeStringOrStringList(ws.promptHints)]]))

\* readConfigAndChanges with the loader under a scope requirement.
readConfigAndChangesUnder(ws) ==
    IF ~ws.folderOpen THEN [error |-> UserFacingError(NoFolderText), config |-> NoPolicy, git |-> NoGit]
    ELSE Let(loadConfigUnder(ws), LAMBDA loaded :
         IF loaded.error.thrown THEN [error |-> loaded.error, config |-> NoPolicy, git |-> NoGit]
         ELSE Let(getScopedCommitsSettings(ws), LAMBDA got :
         IF got.error.thrown THEN [error |-> got.error, config |-> loaded.config, git |-> NoGit]
         ELSE Let(getGitContextOrThrow(ws, got.settings.maxDiffChars), LAMBDA collected :
         IF collected.error.thrown
         THEN [error |-> collected.error, config |-> loaded.config, git |-> NoGit]
         ELSE [error |-> noChangesCheck(collected.git), config |-> loaded.config,
               git |-> collected.git])))

ConfigInit ==
    /\ OverlapIdle
    /\ pc = "Start"
    /\ workspace \in ConfigWorkspaces
    /\ policy = NoPolicy
    /\ git = NoGit
    /\ host = None
    /\ requests = <<>>
    /\ attempt1 = NoAttempt /\ attempt2 = NoAttempt /\ finalMessage = NoFinal
    /\ sinks = [k \in SinkIds |-> Unwritten] /\ attempts = <<>> /\ method = None
    /\ error = NoError /\ outputLog = <<>> /\ notification = NoNotification
    /\ arg = None /\ applied = None /\ result = None

\* The run up to its first call: the first step that throws ends it in the
\* catch block; otherwise the first request is sent.
ReadConfigAndChangesUnder ==
    /\ pc = "Start"
    /\ \E read \in { readConfigAndChangesUnder(workspace) } :
           /\ policy' = read.config
           /\ git' = read.git
           /\ IF read.error.thrown
              THEN /\ Fail(read.error)
                   /\ UNCHANGED requests
              ELSE /\ requests' = <<Request(BaseSystemOf(read.config), BaseUserOf(read.git))>>
                   /\ pc' = "Draft1"
                   /\ UNCHANGED <<error, outputLog>>
    /\ UNCHANGED <<workspace, host, attempt1, attempt2, finalMessage, sinks, attempts,
                   method, notification, fnVars, overlapVars>>

ConfigNext == ReadConfigAndChangesUnder \/ ShowError

SpecConfig == ConfigInit /\ [][ConfigNext]_vars

ConfigurationErrorTexts == { ScopesEmptyText, TypesEmptyText, MissingKeyText }

ForbiddenScopesNeedNoListWitness ==
    /\ pc = "Draft1"
    /\ workspace.scopeRequirement = "requiredUnscoped"
    /\ ~NamesSomething(workspace.scopes)
    /\ Len(requests) = 1


-----------------------------------------------------------------------------
(* SpecParse: parseCommitHeader and validateCommitMessage applied to       *)
(* header lines put together from parts, well-formed or not.               *)

\* Parts of a line: white space in front; types that start with a letter, a
\* digit, a hyphen or a capital, or are missing; scope parts that are absent,
\* plain, empty, with a space, with an opening or a closing parenthesis inside;
\* the separator as required, without its space, with a space before it; a
\* remainder that is plain, padded with a white-space run, empty or blank.
LineLeads == { <<>>, <<" ">> }
LineTypes == { TFix, <<"f", "1", "-", "x">>, <<"1", "x">>, <<"-", "x">>, <<"F", "i", "x">>, <<>> }
LineScopeParts == { <<>>, <<"(", "u", "i", ")">>, <<"(", ")">>, <<"(", "a", " ", "b", ")">>,
                    <<"(", "u", "(", "i", ")">>, <<"(", "a", ")", "b", ")">> }
LineSeparators == { <<":", " ">>, <<":">>, <<" ", ":", " ">> }
LineRemainders == { <<"x">>, <<"a", "d", "d", " ", " ", "x", " ">>, <<>>, <<" ">> }

Lines ==
    { lead \o type \o scopePart \o (IF bang THEN <<"!">> ELSE <<>>) \o separator \o remainder :
        lead \in LineLeads, type \in LineTypes, scopePart \in LineScopeParts,
        bang \in BOOLEAN, separator \in LineSeparators, remainder \in LineRemainders }
      \cup { <<"n", "o", "t", " ", "a", " ", "h", "e", "a", "d", "e", "r">>, <<>> }

\* What may follow the header line in a message.
LineBodies == { <<>>, <<"\n", "\n", "b">> }

ParseInit ==
    /\ RunIdleUnder(CHOOSE p \in Policies : p.maxSubjectLength = 20)
    /\ applied = None /\ result = None
    /\ \E line \in Lines : arg = [line |-> line]

ApplyParseCommitHeader ==
    /\ applied = None
    /\ applied' = "parseCommitHeader"
    /\ result' = parseCommitHeader(arg.line)
    /\ UNCHANGED <<arg, runVars, overlapVars>>

ApplyValidateHeader ==
    /\ applied = None
    /\ applied' = "validateCommitMessage"
    /\ \E body \in LineBodies :
           result' = validateCommitMessage(arg.line \o body, policy.types, policy.scopes,
                                           policy.maxSubjectLength)
    /\ UNCHANGED <<arg, runVars, overlapVars>>

ParseNext == ApplyParseCommitHeader \/ ApplyValidateHeader

SpecParse == ParseInit /\ [][ParseNext]_vars

\* The ways to read s as type, optional '(scope)', optional '!', ': ' and a
\* remainder, the type being a run over typeStart then typeChars: the type
\* ends before position t, the scope part (if any) ends at position c.
Readings(s, typeStart, typeChars) ==
    { r \in [t : 2..(Len(s) + 1), c : 0..Len(s), bang : BOOLEAN] :
        /\ s[1] \in typeStart
        /\ \A k \in 2..(r.t - 1) : s[k] \in typeChars
        /\ IF r.c = 0 THEN TRUE
           ELSE /\ r.c > r.t + 1 /\ s[r.t] = "(" /\ s[r.c] = ")"
                /\ \A k \in (r.t + 1)..(r.c - 1) : s[k] # ")"
        /\ LET b == IF r.c = 0 THEN r.t ELSE r.c + 1
               j == IF r.bang THEN b + 1 ELSE b
           IN  /\ r.bang => (b <= Len(s) /\ s[b] = "!")
               /\ j + 2 <= Len(s) /\ s[j] = ":" /\ s[j + 1] = " " }

\* The header a reading stands for.
HeaderRead(s, r) ==
    LET b == IF r.c = 0 THEN r.t ELSE r.c + 1
        j == IF r.bang THEN b + 1 ELSE b
    IN  [matched |-> TRUE,
         type |-> SubSeq(s, 1, r.t - 1),
         scope |-> IF r.c = 0 THEN <<>> ELSE SubSeq(s, r.t + 1, r.c - 1),
         bang |-> r.bang,
         subject |-> Trim(SubSeq(s, j + 2, Len(s)))]

ParsesAs(line, typeStart, typeChars) ==
    LET s == Trim(line)
        readings == IF s = <<>> THEN {} ELSE Readings(s, typeStart, typeChars)
    IN  IF readings = {} THEN result = NoHeader
        ELSE result \in { HeaderRead(s, r) : r \in readings }

\* C21 as stated: a match exactly for the lines of the shape, the type being
\* any run of lowercase letters, digits and hyphens.
ParseMatchesTheShapeWithAnyTypeRun ==
    applied = "parseCommitHeader" =>
        ParsesAs(arg.line, Lower \cup Digit \cup {"-"}, Lower \cup Digit \cup {"-"})

\* C21: parseCommitHeader returns a match exactly for the lines of the shape
\* type, optional '(scope)', optional '!', ': ', subject, where the type is a
\* lowercase letter followed by lowercase letters, digits and hyphens and the
\* scope a non-empty run without ')'; the match carries that type, that scope
\* (absent when there is none), the marker and the trimmed remainder; every
\* other line yields no match.
ParseMatchesTheShape ==
    applied = "parseCommitHeader" =>
        ParsesAs(arg.line, Lower, Lower \cup Digit \cup {"-"})

\* C21 witness: a breaking header with a scope that holds a space and a
\* padded remainder was parsed.
ParseMatchesWitness ==
    /\ applied = "parseCommitHeader"
    /\ result = [matched |-> TRUE, type |-> <<"f", "1", "-", "x">>, scope |-> <<"a", " ", "b">>,
                 bang |-> TRUE, subject |-> <<"a", "d", "d", " ", " ", "x">>]

\* C29: validateCommitMessage never answers 'Subject is empty.': a header
\* line with nothing, or only white space, after ': ' is not a valid header.
SubjectIsNeverEmpty ==
    /\ applied = "parseCommitHeader" => (result.matched => result.subject # <<>>)
    /\ applied = "validateCommitMessage" =>
          /\ result.reason # <<"Subject is empty.">>
          /\ (EndsWith(Trim(arg.line), <<":">>) /\ ~EndsWith(Trim(arg.line), <<" ", ":">>)) =>
                 result = Invalid(<<"Header is not a valid Conventional Commit header.">>)

\* C29 witness: 'fix(ui): ' followed by a body was validated.
SubjectIsNeverEmptyWitness ==
    /\ applied = "validateCommitMessage"
    /\ arg.line = <<"f", "i", "x", "(", "u", "i", ")", ":", " ">>
    /\ result = Invalid(<<"Header is not a valid Conventional Commit header.">>)


-----------------------------------------------------------------------------
(* SpecStatusText: the staged test, the staged filter and getGitContext    *)
(* applied to any short status text, lines that are no entries included.   *)

MaxTextLen == 4

StatusTextChars == { "M", " ", "?", "a", "\n" }

StatusTexts == SeqsOf(StatusTextChars, 0, MaxTextLen)

StatusTextInit ==
    /\ RunIdle
    /\ applied = None /\ result = None
    /\ \E text \in StatusTexts : arg = [text |-> text]

ApplyStagedTestAndFilter ==
    /\ applied = None
    /\ applied' = "staged test and filter"
    /\ result' = [has |-> hasStagedChangesFromPorcelainV1(arg.text),
                  only |-> stagedOnlyStatusFromPorcelainV1(arg.text)]
    /\ UNCHANGED <<arg, runVars, overlapVars>>

ApplyGetGitContextOnText ==
    /\ applied = None
    /\ applied' = "getGitContext"
    /\ result' = getGitContext([status |-> arg.text, stagedDiff |-> DiffOfA, workingDiff |-> DiffOfA],
                               DefaultMaxDiffChars)
    /\ UNCHANGED <<arg, runVars, overlapVars>>

StatusTextNext == ApplyStagedTestAndFilter \/ ApplyGetGitContextOnText

SpecStatusText == StatusTextInit /\ [][StatusTextNext]_vars

StagedTestAndFilterAgreeButForTwoCharacterLines ==
    (applied = "staged test and filter" /\ result.has /\ result.only = <<>>) =>
            \E i \in 1..Len(TrimmedLines(arg.text)) :
                /\ Len(TrimmedLines(arg.text)[i]) = 2
                /\ TrimmedLines(arg.text)[i][1] # " "
                /\ TrimmedLines(arg.text)[i] # <<"?", "?">>


-----------------------------------------------------------------------------
(* SpecTarget: the target of an invocation, for every context and every    *)
(* list of workspace folders.                                              *)

MaxFolders == 2

\* Roots a context may carry: none, a directory, one nested in it, a sibling
\* sharing a name prefix, and one outside every workspace folder.
ContextRoots == { NoRoot, <<"/", "a">>, <<"/", "a", "/", "b">>, <<"/", "a", "b">>, <<"/", "c">> }

WorkspaceFolderPaths == { <<"/", "a">>, <<"/", "a", "/", "b">>, <<"/", "a", "b">> }

TargetInit ==
    /\ RunIdle
    /\ applied = None /\ result = None
    /\ \E root \in ContextRoots, box \in BOOLEAN,
          folders \in SeqsOf(WorkspaceFolderPaths, 0, MaxFolders) :
          \E activeFolder \in 0..Len(folders) :
              arg = [context |-> ScmContext(root, box), folders |-> folders,
                     activeFolder |-> activeFolder]

ApplyResolveScmInvocationTarget ==
    /\ applied = None
    /\ applied' = "resolveScmInvocationTarget"
    /\ result' = resolveScmInvocationTarget(arg.context, arg.folders)
    /\ UNCHANGED <<arg, runVars, overlapVars>>

ApplyRunTarget ==
    /\ applied = None
    /\ applied' = "runTarget"
    /\ result' = runTarget(arg.context, arg.folders, arg.activeFolder)
    /\ UNCHANGED <<arg, runVars, overlapVars>>

TargetNext == ApplyResolveScmInvocationTarget \/ ApplyRunTarget

SpecTarget == TargetInit /\ [][TargetNext]_vars

\* C30 as stated: when the context carries both a root and an input box, the
\* directory whose changes are collected is that root, and the message goes
\* to the context's input box.
ChangesCollectedAtContextRoot ==
    (/\ applied = "runTarget"
     /\ arg.context.rootPath # NoRoot
     /\ arg.context.inputBox
     /\ ~result.failed)
        => /\ result.cwd = arg.context.rootPath
           /\ result.preferredInputBox

\* What the run does instead: with any workspace folder open, the changes are
\* collected in the workspace folder picked for the root (the deepest one
\* holding it, else the first folder), and that is the root only when the
\* root is itself a workspace folder.
ChangesCollectedAtPickedWorkspaceFolder ==
    (/\ applied = "runTarget"
     /\ arg.context.rootPath # NoRoot
     /\ ~result.failed)
        => /\ result.cwd = arg.folders[pickBestWorkspaceFolderForPath(arg.folders, arg.context.rootPath)]
           /\ result.configFolder = result.cwd
           /\ (\E i \in 1..Len(arg.folders) : arg.folders[i] = arg.context.rootPath)
                  => result.cwd = arg.context.rootPath

\* The root of the context lies in no workspace folder, and the changes of
\* the first workspace folder are collected for the context's input box.
ChangesOfAnotherFolderWitness ==
    /\ applied = "runTarget"
    /\ arg.context = ScmContext(<<"/", "c">>, TRUE)
    /\ result.cwd = <<"/", "a">>
    /\ result.preferredInputBox


-----------------------------------------------------------------------------
(* SpecOverlap: invocations of the command that overlap. Each invocation   *)
(* is an async function of its own; what they share is the input box they  *)
(* write to and the module's activeNotificationCloser.                     *)

MaxRuns == 2

RunIds == 1..MaxRuns

\* The folders invoked in: two with changes and one with nothing changed.
OverlapWorkspaces == { Workspace1, Workspace2, [Workspace1 EXCEPT !.repo = CleanRepo] }

\* A response whose subject each configuration cuts to its own length, and
\* one that no configuration accepts.
OverlapResponses == { MsgLong, MsgGarbage }

OverlapFailures == { AnthropicError(500) }

NotStarted ==
    [pc |-> "NotStarted", workspace |-> None, policy |-> NoPolicy, git |-> NoGit,
     requests |-> <<>>, final |-> NoFinal, error |-> NoError]

\* One sticky error notification: the withProgress promise of
\* showStickyErrorNotification, open until it is resolved.
Notice(r, text) == [run |-> r, text |-> text, open |-> TRUE]

OpenNotices == { n \in DOMAIN notices : notices[n].open }

\* closer?.(): resolving the promise closes the notification; resolving it
\* again changes nothing.
closedBy(closer, shown) ==
    [n \in DOMAIN shown |-> IF n = closer THEN [shown[n] EXCEPT !.open = FALSE] ELSE shown[n]]

\* The notifications after closeActiveNotification(); the closer is then undefined.
closeActiveNotification == closedBy(activeNotificationCloser, notices)

\* Normalize, repair, validate a response under a run's own configuration.
attemptUnder(raw, config) ==
    Let(normalizeCommitMessageText(raw), LAMBDA normalized :
        Let(tryRepairSubjectLengthOnly(normalized, config.types, config.scopes,
                                       config.maxSubjectLength), LAMBDA repaired :
            [normalized |-> normalized, repaired |-> repaired,
             v |-> validateCommitMessage(repaired, config.types, config.scopes,
                                         config.maxSubjectLength)]))

\* What each folder yields when read, and what each configuration makes of
\* each response: computed once, since no run changes a folder.
OverlapReads == [ws \in OverlapWorkspaces |-> readConfigAndChanges(ws)]

OverlapAttempts ==
    [config \in { OverlapReads[ws].config : ws \in OverlapWorkspaces }, text \in OverlapResponses |->
        attemptUnder(text, config)]

OverlapInit ==
    /\ pc = "Idle" /\ workspace = None /\ policy = None /\ git = None /\ host = None
    /\ requests = <<>>
    /\ attempt1 = NoAttempt /\ attempt2 = NoAttempt /\ finalMessage = NoFinal
    /\ sinks = [k \in SinkIds |-> Unwritten] /\ attempts = <<>> /\ method = None
    /\ error = NoError /\ outputLog = <<>> /\ notification = NoNotification
    /\ arg = None /\ applied = None /\ result = None
    /\ runs = [r \in RunIds |-> NotStarted]
    /\ commitBox = [written |-> FALSE, value |-> <<>>, writers |-> <<>>]
    /\ notices = <<>>
    /\ activeNotificationCloser = 0

InvokeMutantOneAtATime(r) ==
    /\ runs[r].pc = "NotStarted"
    /\ \A o \in RunIds : runs[o].pc \in { "NotStarted", "Done", "Failed" }
    /\ \E ws \in OverlapWorkspaces :
           runs' = [runs EXCEPT ![r].pc = "Start", ![r].workspace = ws]
    /\ notices' = closeActiveNotification
    /\ activeNotificationCloser' = 0
    /\ UNCHANGED <<commitBox, runVars, fnVars>>

\* The command is invoked: closeActiveNotification(), then the progress
\* callback starts in the workspace folder of the invocation.
Invoke(r) ==
    /\ runs[r].pc = "NotStarted"
    /\ \E ws \in OverlapWorkspaces :
           runs' = [runs EXCEPT ![r].pc = "Start", ![r].workspace = ws]
    /\ notices' = closeActiveNotification
    /\ activeNotificationCloser' = 0
    /\ UNCHANGED <<commitBox, runVars, fnVars>>

\* The run's catch block: its error is kept until the notification is shown.
FailRun(r, err) == runs' = [runs EXCEPT ![r].pc = "ShowError", ![r].error = err]

\* Load the configuration, read the settings, collect the changes and send
\* the first request.
CollectRun(r) ==
    /\ runs[r].pc = "Start"
    /\ \E read \in { OverlapReads[runs[r].workspace] } :
           IF read.error.thrown
           THEN FailRun(r, read.error)
           ELSE runs' = [runs EXCEPT ![r].pc = "Draft1",
                                     ![r].policy = read.config,
                                     ![r].git = read.git,
                                     ![r].requests = <<Request(BaseSystemOf(read.config),
                                                               BaseUserOf(read.git))>>]
    /\ UNCHANGED <<commitBox, notices, activeNotificationCloser, runVars, fnVars>>

\* The first call settles and its response is validated: return it, send
\* the retry, or fail.
FirstAttempt(r) ==
    /\ runs[r].pc = "Draft1"
    /\ \/ \E text \in OverlapResponses :
            \E a \in { OverlapAttempts[runs[r].policy, text] } :
               IF a.v.ok
               THEN runs' = [runs EXCEPT ![r].pc = "Present",
                                         ![r].final = [set |-> TRUE, text |-> returnedMessage(a)]]
               ELSE runs' = [runs EXCEPT ![r].pc = "Draft2",
                                         ![r].requests =
                                             Append(@, Request(RetrySystemPrompt(BaseSystemOf(runs[r].policy), a.v.reason),
                                                               RetryUserPrompt(BaseUserOf(runs[r].git), a.normalized)))]
       \/ \E err \in OverlapFailures : FailRun(r, callAnthropicOrThrowCatch(err))
    /\ UNCHANGED <<commitBox, notices, activeNotificationCloser, runVars, fnVars>>

\* The second call settles and its response is validated: return it or fail.
SecondAttempt(r) ==
    /\ runs[r].pc = "Draft2"
    /\ \/ \E text \in OverlapResponses :
            \E a \in { OverlapAttempts[runs[r].policy, text] } :
               IF a.v.ok
               THEN runs' = [runs EXCEPT ![r].pc = "Present",
                                         ![r].final = [set |-> TRUE, text |-> returnedMessage(a)]]
               ELSE FailRun(r, retryFailedError(a.v))
       \/ \E err \in OverlapFailures : FailRun(r, callAnthropicOrThrowCatch(err))
    /\ UNCHANGED <<commitBox, notices, activeNotificationCloser, runVars, fnVars>>

\* presentCommitMessage: preferred.value = message
PresentRun(r) ==
    /\ runs[r].pc = "Present"
    /\ commitBox' = [written |-> TRUE, value |-> runs[r].final.text,
                     writers |-> Append(commitBox.writers, r)]
    /\ runs' = [runs EXCEPT ![r].pc = "Done"]
    /\ UNCHANGED <<notices, activeNotificationCloser, runVars, fnVars>>

ShowRunErrorMutantLeavesOpen(r) ==
    /\ runs[r].pc = "ShowError"
    /\ notices' = Append(notices, Notice(r, renderError(runs[r].error).notificationText))
    /\ activeNotificationCloser' = Len(notices) + 1
    /\ runs' = [runs EXCEPT ![r].pc = "Failed"]
    /\ UNCHANGED <<commitBox, runVars, fnVars>>

\* showStickyErrorNotification: closeActiveNotification(), then the new
\* notification, whose task stores its resolve as the closer.
ShowRunError(r) ==
    /\ runs[r].pc = "ShowError"
    /\ notices' = Append(closeActiveNotification,
                         Notice(r, renderError(runs[r].error).notificationText))
    /\ activeNotificationCloser' = Len(notices) + 1
    /\ runs' = [runs EXCEPT ![r].pc = "Failed"]
    /\ UNCHANGED <<commitBox, runVars, fnVars>>

\* token.onCancellationRequested(() => resolve()): the user cancels an open
\* notification.
CancelNotice(n) ==
    /\ n \in OpenNotices
    /\ notices' = closedBy(n, notices)
    /\ UNCHANGED <<runs, commitBox, activeNotificationCloser, runVars, fnVars>>

\* The step of run r that is next.
RunStep(r) ==
    \/ Invoke(r)
    \/ CollectRun(r)
    \/ FirstAttempt(r)
    \/ SecondAttempt(r)
    \/ PresentRun(r)
    \/ ShowRunError(r)

OverlapNext ==
    \/ \E r \in RunIds : RunStep(r)
    \/ \E n \in DOMAIN notices : CancelNotice(n)

SpecOverlap == OverlapInit /\ [][OverlapNext]_vars

InFlight(r) == runs[r].pc \notin { "NotStarted", "Done", "Failed" }

\* A run works on what it read from its own folder, and sends at most two
\* requests built from it; the message it returns is valid under its own
\* configuration.
RunIsItsOwn(r) ==
    /\ runs[r].requests # <<>> =>
          \E read \in { OverlapReads[runs[r].workspace] } :
              /\ runs[r].policy = read.config
              /\ runs[r].git = read.git
              /\ runs[r].requests[1] = Request(BaseSystemOf(read.config), BaseUserOf(read.git))
              /\ Len(runs[r].requests) <= 2
    /\ runs[r].final.set =>
          validateCommitMessage(runs[r].final.text, runs[r].policy.types, runs[r].policy.scopes,
                                runs[r].policy.maxSubjectLength).ok
    /\ runs[r].pc = "Done" => \E k \in DOMAIN commitBox.writers : commitBox.writers[k] = r

\* C23: when invocations overlap none of them is blocked, serialized or
\* rejected: whatever the others are doing, a run that has not ended can take
\* its next step, on its own change set, configuration and requests; and the
\* input box they share holds the message of the run that wrote last.
OverlappingRunsAreIndependent ==
    /\ \A r \in RunIds :
          /\ runs[r].pc \notin { "Done", "Failed" } => ENABLED RunStep(r)
          /\ RunIsItsOwn(r)
    /\ commitBox.written =>
          commitBox.value = runs[commitBox.writers[Len(commitBox.writers)]].final.text

\* C23 witness: two runs in flight at once in different folders, the first
\* about to write after its retry while the second awaits its retry.
OverlappingRunsWitness ==
    /\ runs[1].pc = "Present" /\ Len(runs[1].requests) = 2
    /\ runs[2].pc = "Draft2"
    /\ runs[1].git # runs[2].git
    /\ runs[1].policy # runs[2].policy

\* Both runs have written, the second before the first, and the box holds the
\* first run's message, which is not the second's.
LastWriteWinsWitness ==
    /\ commitBox.writers = <<2, 1>>
    /\ runs[1].final.text # runs[2].final.text
    /\ commitBox.value = runs[1].final.text

\* C27: error notifications never stack. At most one is open at any time,
\* and it is the one the closer resolves; invoking the command closes the
\* open one; a failure that shows its notification closes the earlier one;
\* and a notification closed by cancellation leaves every run as it was.
NoticesNeverStack ==
    /\ [](Cardinality(OpenNotices) <= 1 /\ OpenNotices \subseteq { activeNotificationCloser })
    /\ [][(\E r \in RunIds : runs[r].pc = "NotStarted" /\ runs'[r].pc = "Start")
              => \A n \in DOMAIN notices' : ~notices'[n].open]_vars
    /\ [][Len(notices') > Len(notices)
              => { n \in DOMAIN notices' : notices'[n].open } = { Len(notices') }]_vars
    /\ [][(/\ Len(notices') = Len(notices)
            /\ notices' # notices
            /\ activeNotificationCloser' = activeNotificationCloser)
              => runs' = runs /\ commitBox' = commitBox]_vars

\* C27 witness: the failure of one run showed its notification, and the
\* later failure of the other closed it and showed its own.
NoticesNeverStackWitness ==
    /\ Len(notices) = 2
    /\ notices[1].run # notices[2].run
    /\ ~notices[1].open
    /\ notices[2].open

\* A notification was cancelled while the other run was in flight.
CancelledInFlightWitness ==
    /\ activeNotificationCloser # 0
    /\ ~notices[activeNotificationCloser].open
    /\ \E r \in RunIds : InFlight(r)



=============================================================================
